---- MODULE Spec2Model ----
(***************************************************************************)
(* Envelope encryption of transaction payloads (packages/crypto):          *)
(* master-key resolution, AES-256-GCM seal/open, encryptTransaction,       *)
(* decryptTransaction and validateRecord.                                  *)
(*                                                                         *)
(* Representation.  A JavaScript string is a sequence of character codes   *)
(* (ASCII), a Buffer is a sequence of bytes 0..255.  node:crypto is        *)
(* outside the repository; AES-256-GCM is modelled as the ideal            *)
(* authenticated cipher: `gcm` is the graph of every seal performed so     *)
(* far, and an open succeeds exactly on a (key, nonce, ciphertext, tag)    *)
(* of that graph.  randomBytes returns a value never returned before.      *)
(***************************************************************************)
EXTENDS Integers, Sequences, FiniteSets, TLC

\* ------------------------------------------------------------------ bounds
MaxEncodes == 2      \* encryptTransaction calls in one behaviour
MaxStarts == 2       \* process starts (module loads) in one behaviour
MaxTasks == 2        \* storage calls in progress at once
MaxProcs == 2        \* processes started side by side

\* ------------------------------------------------------- program constants
NONCE_LENGTH == 12
TAG_LENGTH == 16
DEK_LENGTH == 32
ID_LENGTH == 16
MK_VERSION == 1
ALG == "AES-256-GCM"

\* ------------------------------------------------------------- characters
IsDigit(c) == c >= 48 /\ c <= 57                       \* 0-9
IsLowerHex(c) == c >= 97 /\ c <= 102                   \* a-f
IsUpperHex(c) == c >= 65 /\ c <= 70                    \* A-F
IsHexChar(c) == IsDigit(c) \/ IsLowerHex(c) \/ IsUpperHex(c)
IsSpace(c) == c \in {9, 10, 11, 12, 13, 32}

HexVal(c) == IF IsDigit(c) THEN c - 48
             ELSE IF IsLowerHex(c) THEN c - 87
             ELSE c - 55

HexDigit(v) == IF v < 10 THEN 48 + v ELSE 87 + v       \* lower case

\* /^[0-9a-fA-F]*$/.test(hex)
isValidHex(hex) == \A i \in 1..Len(hex) : IsHexChar(hex[i])

\* Number of leading character pairs of s that are both hex digits.
RECURSIVE HexPairs(_, _)
HexPairs(s, n) ==
    IF 2 * n + 2 <= Len(s) /\ IsHexChar(s[2 * n + 1]) /\ IsHexChar(s[2 * n + 2])
    THEN HexPairs(s, n + 1)
    ELSE n

\* Buffer.from(s, "hex"): decodes pairs of hex digits and stops at the first
\* pair that is not one; a trailing single character is dropped.
BufferFromHex(s) ==
    [i \in 1..HexPairs(s, 0) |-> 16 * HexVal(s[2 * i - 1]) + HexVal(s[2 * i])]

\* buf.toString("hex"): two lower-case digits per byte.
BufferToHex(b) ==
    [i \in 1..(2 * Len(b)) |->
        IF i % 2 = 1 THEN HexDigit(b[(i + 1) \div 2] \div 16)
                     ELSE HexDigit(b[i \div 2] % 16)]

\* String.prototype.trim
RECURSIVE TrimLeft(_)
TrimLeft(s) == IF s # <<>> /\ IsSpace(Head(s)) THEN TrimLeft(Tail(s)) ELSE s
RECURSIVE TrimRight(_)
TrimRight(s) ==
    IF s # <<>> /\ IsSpace(s[Len(s)]) THEN TrimRight(SubSeq(s, 1, Len(s) - 1)) ELSE s
Trim(s) == TrimRight(TrimLeft(s))

\* ------------------------------------------------------------------- JSON
\* A JSON value is a node [t, n, s, kids]:
\*   t = "num": the integer n          t = "str": the string s
\*   t = "lit": s is true/false/null   t = "arr": kids are the elements
\*   t = "obj": kids are "mem" nodes (s = key, kids = <<value>>), in order.
Num(n) == [t |-> "num", n |-> n, s |-> <<>>, kids |-> <<>>]
Str(s) == [t |-> "str", n |-> 0, s |-> s, kids |-> <<>>]
Lit(s) == [t |-> "lit", n |-> 0, s |-> s, kids |-> <<>>]
Arr(kids) == [t |-> "arr", n |-> 0, s |-> <<>>, kids |-> kids]
Mem(k, v) == [t |-> "mem", n |-> 0, s |-> k, kids |-> <<v>>]
Obj(mems) == [t |-> "obj", n |-> 0, s |-> <<>>, kids |-> mems]

RECURSIVE Digits(_)
Digits(n) == IF n < 10 THEN <<48 + n>> ELSE Digits(n \div 10) \o <<48 + (n % 10)>>

\* A string literal: quote and backslash are escaped.
RECURSIVE QuoteBody(_)
QuoteBody(s) ==
    IF s = <<>> THEN <<>>
    ELSE (IF Head(s) \in {34, 92} THEN <<92, Head(s)>> ELSE <<Head(s)>>)
         \o QuoteBody(Tail(s))
Quote(s) == <<34>> \o QuoteBody(s) \o <<34>>

\* JSON.stringify(value), no indentation.
RECURSIVE JSONstringify(_)
RECURSIVE StringifyList(_, _)
StringifyList(kids, i) ==
    IF i > Len(kids) THEN <<>>
    ELSE (IF i > 1 THEN <<44>> ELSE <<>>)
         \o JSONstringify(kids[i]) \o StringifyList(kids, i + 1)
JSONstringify(v) ==
    CASE v.t = "num" -> IF v.n < 0 THEN <<45>> \o Digits(-v.n) ELSE Digits(v.n)
      [] v.t = "str" -> Quote(v.s)
      [] v.t = "lit" -> v.s
      [] v.t = "arr" -> <<91>> \o StringifyList(v.kids, 1) \o <<93>>
      [] v.t = "obj" -> <<123>> \o StringifyList(v.kids, 1) \o <<125>>
      [] v.t = "mem" -> Quote(v.s) \o <<58>> \o JSONstringify(v.kids[1])

\* JSON.parse(text): a recursive-descent parser.  Every parser returns
\* [ok, v, i]: whether it succeeded, the value, the next position.
Fail == [ok |-> FALSE, v |-> Num(0), i |-> 0]
Good(v, i) == [ok |-> TRUE, v |-> v, i |-> i]
At(s, i) == IF i >= 1 /\ i <= Len(s) THEN s[i] ELSE 0

RECURSIVE SkipWs(_, _)
SkipWs(s, i) == IF At(s, i) \in {9, 10, 13, 32} THEN SkipWs(s, i + 1) ELSE i

RECURSIVE ParseDigits(_, _, _)
ParseDigits(s, i, acc) ==
    IF IsDigit(At(s, i)) THEN ParseDigits(s, i + 1, 10 * acc + (At(s, i) - 48))
    ELSE Good(Num(acc), i)

ParseNumber(s, i) ==
    LET neg == At(s, i) = 45
        j == IF neg THEN i + 1 ELSE i
    IN  IF ~IsDigit(At(s, j)) THEN Fail
        ELSE LET r == IF At(s, j) = 48 THEN Good(Num(0), j + 1)   \* no leading zero
                      ELSE ParseDigits(s, j, 0)
             IN  Good(Num(IF neg THEN -r.v.n ELSE r.v.n), r.i)

RECURSIVE ParseChars(_, _, _)
ParseChars(s, i, acc) ==
    LET c == At(s, i)
    IN  IF i > Len(s) \/ c < 32 THEN Fail
        ELSE IF c = 34 THEN Good(Str(acc), i + 1)
        ELSE IF c = 92
             THEN IF At(s, i + 1) \in {34, 92}
                  THEN ParseChars(s, i + 2, Append(acc, At(s, i + 1)))
                  ELSE Fail
        ELSE ParseChars(s, i + 1, Append(acc, c))

ParseString(s, i) == IF At(s, i) = 34 THEN ParseChars(s, i + 1, <<>>) ELSE Fail

ParseLit(s, i, word) ==
    IF i + Len(word) - 1 <= Len(s) /\ SubSeq(s, i, i + Len(word) - 1) = word
    THEN Good(Lit(word), i + Len(word))
    ELSE Fail

RECURSIVE ParseValue(_, _)
RECURSIVE ParseElems(_, _, _)
RECURSIVE ParseMembers(_, _, _)

\* after "[" or ",": an element, then "," or "]"
ParseElems(s, i, acc) ==
    LET e == ParseValue(s, SkipWs(s, i))
        j == SkipWs(s, e.i)
    IN  IF ~e.ok THEN Fail
        ELSE IF At(s, j) = 44 THEN ParseElems(s, j + 1, Append(acc, e.v))
        ELSE IF At(s, j) = 93 THEN Good(Arr(Append(acc, e.v)), j + 1)
        ELSE Fail

\* after "{" or ",": "key" : value, then "," or "}"
ParseMembers(s, i, acc) ==
    LET k == ParseString(s, SkipWs(s, i))
        c == SkipWs(s, k.i)
        e == ParseValue(s, SkipWs(s, c + 1))
        j == SkipWs(s, e.i)
    IN  IF ~k.ok \/ At(s, c) # 58 THEN Fail
        ELSE IF ~e.ok THEN Fail
        ELSE IF At(s, j) = 44 THEN ParseMembers(s, j + 1, Append(acc, Mem(k.v.s, e.v)))
        ELSE IF At(s, j) = 125 THEN Good(Obj(Append(acc, Mem(k.v.s, e.v))), j + 1)
        ELSE Fail

ParseValue(s, i) ==
    LET c == At(s, i)
    IN  CASE c = 123 -> IF At(s, SkipWs(s, i + 1)) = 125
                        THEN Good(Obj(<<>>), SkipWs(s, i + 1) + 1)
                        ELSE ParseMembers(s, i + 1, <<>>)
          [] c = 91 -> IF At(s, SkipWs(s, i + 1)) = 93
                       THEN Good(Arr(<<>>), SkipWs(s, i + 1) + 1)
                       ELSE ParseElems(s, i + 1, <<>>)
          [] c = 34 -> ParseString(s, i)
          [] c = 116 -> ParseLit(s, i, <<116, 114, 117, 101>>)
          [] c = 102 -> ParseLit(s, i, <<102, 97, 108, 115, 101>>)
          [] c = 110 -> ParseLit(s, i, <<110, 117, 108, 108>>)
          [] c = 45 \/ IsDigit(c) -> ParseNumber(s, i)
          [] OTHER -> Fail

\* JSON.parse: [ok, v]; ok = FALSE is a SyntaxError.
JSONparse(text) ==
    LET r == ParseValue(text, SkipWs(text, 1))
    IN  IF r.ok /\ SkipWs(text, r.i) = Len(text) + 1
        THEN [ok |-> TRUE, v |-> r.v]
        ELSE [ok |-> FALSE, v |-> Num(0)]


\* ------------------------------------------------ randomness and the cipher
\* randomBytes(n), the r-th draw of the behaviour: no two draws are equal.
randomBytes(r, n) == [i \in 1..n |-> (17 * r + i) % 256]

\* What the ideal cipher returns for the n-th seal: a ciphertext as long as
\* the plaintext and a 16-byte tag, both particular to the seal.
CipherBytes(n, data) == [i \in 1..Len(data) |-> (data[i] + 31 * n + i) % 256]
TagBytes(n) == [i \in 1..TAG_LENGTH |-> (13 * n + 7 * i) % 256]

\* createCipheriv / createDecipheriv("aes-256-gcm", key, iv) throw a
\* RangeError (Invalid key length) unless the key has 32 bytes.
KeyLengthOk(key) == Len(key) = 32

\* An encrypt whose cipher is created with authTagLength 12.
encryptTruncatedTag(data, key, r, g) ==
    LET nonce == randomBytes(r, NONCE_LENGTH)
        n == Len(g) + 1
        ct == CipherBytes(n, data)
        tag == SubSeq(TagBytes(n), 1, 12)
    IN  IF ~KeyLengthOk(key)
        THEN [threw |-> TRUE, nonce |-> <<>>, ciphertext |-> <<>>, tag |-> <<>>,
              gcm |-> g]
        ELSE [threw |-> FALSE,
              nonce |-> BufferToHex(nonce),
              ciphertext |-> BufferToHex(ct),
              tag |-> BufferToHex(tag),
              gcm |-> Append(g, [key |-> key, nonce |-> nonce, pt |-> data,
                                 ct |-> ct, tag |-> tag])]

\* An encrypt whose nonce is a constant of the module instead of a draw.
encryptFixedNonce(data, key, r, g) ==
    LET nonce == [i \in 1..NONCE_LENGTH |-> i]
        n == Len(g) + 1
        ct == CipherBytes(n, data)
        tag == TagBytes(n)
    IN  IF ~KeyLengthOk(key)
        THEN [threw |-> TRUE, nonce |-> <<>>, ciphertext |-> <<>>, tag |-> <<>>,
              gcm |-> g]
        ELSE [threw |-> FALSE,
              nonce |-> BufferToHex(nonce),
              ciphertext |-> BufferToHex(ct),
              tag |-> BufferToHex(tag),
              gcm |-> Append(g, [key |-> key, nonce |-> nonce, pt |-> data,
                                 ct |-> ct, tag |-> tag])]

\* encrypt(data, key): [threw, nonce, ciphertext, tag, gcm]; r is the index
\* of the random draw it makes, g the cipher's graph before the call.
encrypt(data, key, r, g) ==
    LET nonce == randomBytes(r, NONCE_LENGTH)
        n == Len(g) + 1
        ct == CipherBytes(n, data)
        tag == TagBytes(n)
    IN  IF ~KeyLengthOk(key)
        THEN [threw |-> TRUE, nonce |-> <<>>, ciphertext |-> <<>>, tag |-> <<>>,
              gcm |-> g]
        ELSE [threw |-> FALSE,
              nonce |-> BufferToHex(nonce),
              ciphertext |-> BufferToHex(ct),
              tag |-> BufferToHex(tag),
              gcm |-> Append(g, [key |-> key, nonce |-> nonce, pt |-> data,
                                 ct |-> ct, tag |-> tag])]

\* A decrypt that never calls setAuthTag: the tag is not verified.
decryptWithoutTag(ciphertext, key, nonce, tag, g) ==
    LET iv == BufferFromHex(nonce)
        ct == BufferFromHex(ciphertext)
        hit == {n \in 1..Len(g) : g[n].key = key /\ g[n].nonce = iv /\ g[n].ct = ct}
    IN  IF ~KeyLengthOk(key) \/ iv = <<>> \/ hit = {}
        THEN [ok |-> FALSE, plaintext |-> <<>>]
        ELSE [ok |-> TRUE, plaintext |-> g[CHOOSE n \in hit : TRUE].pt]

\* decrypt(ciphertext, key, nonce, tag): [ok, plaintext]; ok = FALSE is the
\* DecryptionError thrown by its catch block, whatever was thrown inside.
decrypt(ciphertext, key, nonce, tag, g) ==
    LET iv == BufferFromHex(nonce)
        tg == BufferFromHex(tag)
        ct == BufferFromHex(ciphertext)
        hit == {n \in 1..Len(g) : /\ g[n].key = key /\ g[n].nonce = iv
                                  /\ g[n].ct = ct /\ g[n].tag = tg}
    IN  IF ~KeyLengthOk(key) \/ iv = <<>> \/ hit = {}
        THEN [ok |-> FALSE, plaintext |-> <<>>]
        ELSE [ok |-> TRUE, plaintext |-> g[CHOOSE n \in hit : TRUE].pt]

\* ------------------------------------------------------------- master key
NoFile == [exists |-> FALSE, content |-> <<>>]
FileOf(content) == [exists |-> TRUE, content |-> content]

\* A getMasterKey that looks at the key file before the environment.
getMasterKeyFileFirst(env, file, r) ==
    IF file.exists
    THEN [key |-> BufferFromHex(Trim(file.content)), file |-> file,
          read |-> TRUE, wrote |-> FALSE, rnd |-> r]
    ELSE IF env # <<>>
    THEN [key |-> BufferFromHex(env), file |-> file,
          read |-> FALSE, wrote |-> FALSE, rnd |-> r]
    ELSE LET newKey == randomBytes(r, 32)
         IN  [key |-> newKey, file |-> FileOf(BufferToHex(newKey)),
              read |-> FALSE, wrote |-> TRUE, rnd |-> r + 1]

\* A getMasterKey without its writeFileSync: the new key is not persisted.
getMasterKeyNotSaved(env, file, r) ==
    IF env # <<>>
    THEN [key |-> BufferFromHex(env), file |-> file,
          read |-> FALSE, wrote |-> FALSE, rnd |-> r]
    ELSE IF file.exists
    THEN [key |-> BufferFromHex(Trim(file.content)), file |-> file,
          read |-> TRUE, wrote |-> FALSE, rnd |-> r]
    ELSE [key |-> randomBytes(r, 32), file |-> file,
          read |-> FALSE, wrote |-> FALSE, rnd |-> r + 1]

\* A getMasterKey whose new key is a built-in default instead of random.
getMasterKeyDefaultKey(env, file, r) ==
    IF env # <<>>
    THEN [key |-> BufferFromHex(env), file |-> file,
          read |-> FALSE, wrote |-> FALSE, rnd |-> r]
    ELSE IF file.exists
    THEN [key |-> BufferFromHex(Trim(file.content)), file |-> file,
          read |-> TRUE, wrote |-> FALSE, rnd |-> r]
    ELSE LET newKey == [i \in 1..32 |-> i]
         IN  [key |-> newKey, file |-> FileOf(BufferToHex(newKey)),
              read |-> FALSE, wrote |-> TRUE, rnd |-> r]

\* getMasterKey(): [key, file, read, wrote, rnd] from process.env.MASTER_KEY (<<>> when
\* unset or empty), the key file and the next random draw.
getMasterKey(env, file, r) ==
    IF env # <<>>
    THEN [key |-> BufferFromHex(env), file |-> file,
          read |-> FALSE, wrote |-> FALSE, rnd |-> r]
    ELSE IF file.exists
    THEN [key |-> BufferFromHex(Trim(file.content)), file |-> file,
          read |-> TRUE, wrote |-> FALSE, rnd |-> r]
    ELSE LET newKey == randomBytes(r, 32)
         IN  [key |-> newKey, file |-> FileOf(BufferToHex(newKey)),
              read |-> FALSE, wrote |-> TRUE, rnd |-> r + 1]

\* ------------------------------------------------------------- validation
Msg(field, what, n) == [field |-> field, what |-> what, n |-> n]
Pass == [threw |-> FALSE, message |-> Msg("", "", 0)]
Throw(m) == [threw |-> TRUE, message |-> m]

\* A validateNonce without its length check.
validateNonceAnyLength(nonce, fieldName) ==
    IF ~isValidHex(nonce) THEN Throw(Msg(fieldName, "must be valid hex", 0))
    ELSE Pass

\* A validateNonce that checks the length before the characters.
validateNonceLengthFirst(nonce, fieldName) ==
    IF Len(BufferFromHex(nonce)) # NONCE_LENGTH
    THEN Throw(Msg(fieldName, "must be bytes", NONCE_LENGTH))
    ELSE IF ~isValidHex(nonce) THEN Throw(Msg(fieldName, "must be valid hex", 0))
    ELSE Pass

validateNonce(nonce, fieldName) ==
    IF ~isValidHex(nonce) THEN Throw(Msg(fieldName, "must be valid hex", 0))
    ELSE IF Len(BufferFromHex(nonce)) # NONCE_LENGTH
    THEN Throw(Msg(fieldName, "must be bytes", NONCE_LENGTH))
    ELSE Pass

validateTag(tag, fieldName) ==
    IF ~isValidHex(tag) THEN Throw(Msg(fieldName, "must be valid hex", 0))
    ELSE IF Len(BufferFromHex(tag)) # TAG_LENGTH
    THEN Throw(Msg(fieldName, "must be bytes", TAG_LENGTH))
    ELSE Pass

validateCipherText(ct, fieldName) ==
    IF ~isValidHex(ct) THEN Throw(Msg(fieldName, "must be valid hex", 0))
    ELSE IF Len(ct) = 0 THEN Throw(Msg(fieldName, "cannot be empty", 0))
    ELSE Pass

\* The first of a sequence of check results that threw, else Pass.
RECURSIVE FirstThrow(_)
FirstThrow(checks) ==
    IF checks = <<>> THEN Pass
    ELSE IF Head(checks).threw THEN Head(checks)
    ELSE FirstThrow(Tail(checks))

\* The six field checks, in the order of the statements.
FieldChecks(record) ==
    << validateNonce(record.payload_nonce, "payload_nonce"),
       validateTag(record.payload_tag, "payload_tag"),
       validateCipherText(record.payload_ct, "payload_ct"),
       validateNonce(record.dek_wrap_nonce, "dek_wrap_nonce"),
       validateTag(record.dek_wrap_tag, "dek_wrap_tag"),
       validateCipherText(record.dek_wrapped, "dek_wrapped") >>

\* A validateRecord that checks both nonces, then both tags, then both
\* ciphertexts.
validateRecordGrouped(record) ==
    FirstThrow(
      << validateNonce(record.payload_nonce, "payload_nonce"),
         validateNonce(record.dek_wrap_nonce, "dek_wrap_nonce"),
         validateTag(record.payload_tag, "payload_tag"),
         validateTag(record.dek_wrap_tag, "dek_wrap_tag"),
         validateCipherText(record.payload_ct, "payload_ct"),
         validateCipherText(record.dek_wrapped, "dek_wrapped"),
         IF record.alg # ALG THEN Throw(Msg("", "Invalid algorithm", 0)) ELSE Pass,
         IF record.mk_version # MK_VERSION
         THEN Throw(Msg("", "Invalid master key version", 0)) ELSE Pass >>)

\* A validateRecord without the checks of alg and mk_version.
validateRecordFieldsOnly(record) == FirstThrow(FieldChecks(record))

\* validateRecord(record): [threw, message] (a ValidationError when threw).
validateRecord(record) ==
    FirstThrow(FieldChecks(record) \o
      << IF record.alg # ALG THEN Throw(Msg("", "Invalid algorithm", 0)) ELSE Pass,
         IF record.mk_version # MK_VERSION
         THEN Throw(Msg("", "Invalid master key version", 0)) ELSE Pass >>)


\* ---------------------------------------------------------- envelope codec
\* Buffer.from(text, "utf-8"): one byte below U+0080, two bytes up to U+07FF.
RECURSIVE Utf8Encode(_)
Utf8Encode(text) ==
    IF text = <<>> THEN <<>>
    ELSE (IF Head(text) < 128 THEN <<Head(text)>>
          ELSE <<192 + (Head(text) \div 64), 128 + (Head(text) % 64)>>)
         \o Utf8Encode(Tail(text))

\* buf.toString("utf-8"); a byte that starts no well-formed sequence decodes
\* to U+FFFD.
RECURSIVE Utf8Decode(_)
Utf8Decode(bytes) ==
    IF bytes = <<>> THEN <<>>
    ELSE IF Head(bytes) < 128 THEN <<Head(bytes)>> \o Utf8Decode(Tail(bytes))
    ELSE IF /\ Head(bytes) >= 194 /\ Head(bytes) <= 223 /\ Len(bytes) >= 2
            /\ bytes[2] >= 128 /\ bytes[2] <= 191
    THEN <<64 * (Head(bytes) - 192) + (bytes[2] - 128)>>
         \o Utf8Decode(Tail(Tail(bytes)))
    ELSE <<65533>> \o Utf8Decode(Tail(bytes))

NoRecord ==
    [id |-> <<>>, partyId |-> "", createdAt |-> 0,
     payload_nonce |-> <<>>, payload_ct |-> <<>>, payload_tag |-> <<>>,
     dek_wrap_nonce |-> <<>>, dek_wrapped |-> <<>>, dek_wrap_tag |-> <<>>,
     alg |-> "", mk_version |-> 0]

\* A sealEnvelope whose DEK is a constant of the module instead of a draw.
sealEnvelopeStaticDek(partyId, payloadBuffer, mk, r, g, now) ==
    LET dek == [i \in 1..DEK_LENGTH |-> 2 * i]
        p == encrypt(payloadBuffer, dek, r + 1, g)
        w == encrypt(dek, mk, r + 2, p.gcm)
    IN  IF w.threw
        THEN [threw |-> TRUE, record |-> NoRecord, gcm |-> w.gcm, rnd |-> r + 3]
        ELSE [threw |-> FALSE,
              record |-> [id |-> BufferToHex(randomBytes(r + 3, ID_LENGTH)),
                          partyId |-> partyId,
                          createdAt |-> now,
                          payload_nonce |-> p.nonce,
                          payload_ct |-> p.ciphertext,
                          payload_tag |-> p.tag,
                          dek_wrap_nonce |-> w.nonce,
                          dek_wrapped |-> w.ciphertext,
                          dek_wrap_tag |-> w.tag,
                          alg |-> ALG,
                          mk_version |-> MK_VERSION],
              gcm |-> w.gcm, rnd |-> r + 4]

\* The body of encryptTransaction from the serialized payload on:
\* [threw, record, gcm, rnd].  r is the next random draw, now the clock.
sealEnvelope(partyId, payloadBuffer, mk, r, g, now) ==
    LET dek == randomBytes(r, DEK_LENGTH)
        p == encrypt(payloadBuffer, dek, r + 1, g)
        w == encrypt(dek, mk, r + 2, p.gcm)
    IN  IF w.threw
        THEN [threw |-> TRUE, record |-> NoRecord, gcm |-> w.gcm, rnd |-> r + 3]
        ELSE [threw |-> FALSE,
              record |-> [id |-> BufferToHex(randomBytes(r + 3, ID_LENGTH)),
                          partyId |-> partyId,
                          createdAt |-> now,
                          payload_nonce |-> p.nonce,
                          payload_ct |-> p.ciphertext,
                          payload_tag |-> p.tag,
                          dek_wrap_nonce |-> w.nonce,
                          dek_wrapped |-> w.ciphertext,
                          dek_wrap_tag |-> w.tag,
                          alg |-> ALG,
                          mk_version |-> MK_VERSION],
              gcm |-> w.gcm, rnd |-> r + 4]

\* encryptTransaction(request)
encryptTransaction(request, mk, r, g, now) ==
    sealEnvelope(request.partyId, Utf8Encode(JSONstringify(request.payload)),
                 mk, r, g, now)

TamperedMsg == Msg("", "Decryption failed: ciphertext or tag may be tampered", 0)
SyntaxMsg == Msg("", "Decryption failed: SyntaxError", 0)
NoValue == [partyId |-> "", payload |-> Num(0), createdAt |-> 0]
Outcome(kind, message, value, opens) ==
    [kind |-> kind, message |-> message, value |-> value, opens |-> opens]

\* A decryptTransaction that validates the payload fields only after it has
\* unwrapped the DEK.
decryptTransactionLateChecks(record, mk, g) ==
    LET vd == FirstThrow(SubSeq(FieldChecks(record), 4, 6))
        vp == FirstThrow(SubSeq(FieldChecks(record), 1, 3))
        dek == decrypt(record.dek_wrapped, mk, record.dek_wrap_nonce,
                       record.dek_wrap_tag, g)
        payloadBuffer == decrypt(record.payload_ct, dek.plaintext,
                                 record.payload_nonce, record.payload_tag, g)
        payload == JSONparse(Utf8Decode(payloadBuffer.plaintext))
    IN  IF vd.threw THEN Outcome("ValidationError", vd.message, NoValue, 0)
        ELSE IF ~dek.ok THEN Outcome("DecryptionError", TamperedMsg, NoValue, 1)
        ELSE IF vp.threw THEN Outcome("ValidationError", vp.message, NoValue, 1)
        ELSE IF ~payloadBuffer.ok
        THEN Outcome("DecryptionError", TamperedMsg, NoValue, 2)
        ELSE IF ~payload.ok THEN Outcome("DecryptionError", SyntaxMsg, NoValue, 2)
        ELSE Outcome("ok", Msg("", "", 0),
                     [partyId |-> record.partyId, payload |-> payload.v,
                      createdAt |-> record.createdAt], 2)

\* A decryptTransaction whose JSON.parse is outside the try block: the
\* SyntaxError reaches the caller.
decryptTransactionParseOutside(record, mk, g) ==
    LET v == FirstThrow(FieldChecks(record))
        dek == decrypt(record.dek_wrapped, mk, record.dek_wrap_nonce,
                       record.dek_wrap_tag, g)
        payloadBuffer == decrypt(record.payload_ct, dek.plaintext,
                                 record.payload_nonce, record.payload_tag, g)
        payload == JSONparse(Utf8Decode(payloadBuffer.plaintext))
    IN  IF v.threw THEN Outcome("ValidationError", v.message, NoValue, 0)
        ELSE IF ~dek.ok THEN Outcome("DecryptionError", TamperedMsg, NoValue, 1)
        ELSE IF ~payloadBuffer.ok
        THEN Outcome("DecryptionError", TamperedMsg, NoValue, 2)
        ELSE IF ~payload.ok THEN Outcome("SyntaxError", SyntaxMsg, NoValue, 2)
        ELSE Outcome("ok", Msg("", "", 0),
                     [partyId |-> record.partyId, payload |-> payload.v,
                      createdAt |-> record.createdAt], 2)

\* A decryptTransaction that reports a failed unwrap of the DEK in words of
\* its own.
decryptTransactionStepMessages(record, mk, g) ==
    LET v == FirstThrow(FieldChecks(record))
        dek == decrypt(record.dek_wrapped, mk, record.dek_wrap_nonce,
                       record.dek_wrap_tag, g)
        payloadBuffer == decrypt(record.payload_ct, dek.plaintext,
                                 record.payload_nonce, record.payload_tag, g)
        payload == JSONparse(Utf8Decode(payloadBuffer.plaintext))
    IN  IF v.threw THEN Outcome("ValidationError", v.message, NoValue, 0)
        ELSE IF ~dek.ok
        THEN Outcome("DecryptionError",
                     Msg("", "Decryption failed: cannot unwrap DEK", 0), NoValue, 1)
        ELSE IF ~payloadBuffer.ok
        THEN Outcome("DecryptionError", TamperedMsg, NoValue, 2)
        ELSE IF ~payload.ok THEN Outcome("DecryptionError", SyntaxMsg, NoValue, 2)
        ELSE Outcome("ok", Msg("", "", 0),
                     [partyId |-> record.partyId, payload |-> payload.v,
                      createdAt |-> record.createdAt], 2)

\* A decryptTransaction that returns no createdAt of the record.
decryptTransactionDropsCreatedAt(record, mk, g) ==
    LET v == FirstThrow(FieldChecks(record))
        dek == decrypt(record.dek_wrapped, mk, record.dek_wrap_nonce,
                       record.dek_wrap_tag, g)
        payloadBuffer == decrypt(record.payload_ct, dek.plaintext,
                                 record.payload_nonce, record.payload_tag, g)
        payload == JSONparse(Utf8Decode(payloadBuffer.plaintext))
    IN  IF v.threw THEN Outcome("ValidationError", v.message, NoValue, 0)
        ELSE IF ~dek.ok THEN Outcome("DecryptionError", TamperedMsg, NoValue, 1)
        ELSE IF ~payloadBuffer.ok
        THEN Outcome("DecryptionError", TamperedMsg, NoValue, 2)
        ELSE IF ~payload.ok THEN Outcome("DecryptionError", SyntaxMsg, NoValue, 2)
        ELSE Outcome("ok", Msg("", "", 0),
                     [partyId |-> record.partyId, payload |-> payload.v,
                      createdAt |-> 0], 2)

\* decryptTransaction(record): kind is "ok", "ValidationError" or
\* "DecryptionError"; opens counts the calls of decrypt (AES-GCM opens).
decryptTransaction(record, mk, g) ==
    LET v == FirstThrow(FieldChecks(record))
        dek == decrypt(record.dek_wrapped, mk, record.dek_wrap_nonce,
                       record.dek_wrap_tag, g)
        payloadBuffer == decrypt(record.payload_ct, dek.plaintext,
                                 record.payload_nonce, record.payload_tag, g)
        payload == JSONparse(Utf8Decode(payloadBuffer.plaintext))
    IN  IF v.threw THEN Outcome("ValidationError", v.message, NoValue, 0)
        ELSE IF ~dek.ok THEN Outcome("DecryptionError", TamperedMsg, NoValue, 1)
        ELSE IF ~payloadBuffer.ok
        THEN Outcome("DecryptionError", TamperedMsg, NoValue, 2)
        ELSE IF ~payload.ok THEN Outcome("DecryptionError", SyntaxMsg, NoValue, 2)
        ELSE Outcome("ok", Msg("", "", 0),
                     [partyId |-> record.partyId, payload |-> payload.v,
                      createdAt |-> record.createdAt], 2)


\* ------------------------------------------------------------ environment
\* A key an operator configures, and a key left in the key file.
ConfigKey == [i \in 1..32 |-> 255 - i]
FileKey == [i \in 1..32 |-> 128 + i]

\* process.env.MASTER_KEY: unset, 64 hex digits, 62 hex digits (31 bytes),
\* 64 hex digits followed by characters that are not hex.
EnvChoices ==
    { <<>>,
      BufferToHex(ConfigKey),
      SubSeq(BufferToHex(ConfigKey), 1, 62),
      BufferToHex(ConfigKey) \o <<122, 122>> }

\* The key file: absent, a key followed by a newline, a truncated key.
FileChoices ==
    { NoFile,
      FileOf(BufferToHex(FileKey) \o <<10>>),
      FileOf(SubSeq(BufferToHex(FileKey), 1, 40)) }

\* Requests to encrypt: {partyId, payload}.
Requests ==
    { [partyId |-> "party-456", payload |-> Obj(<<>>)],            \* {}
      [partyId |-> "party-123",
       payload |-> Obj(<< Mem(<<97>>, Num(1000)),                  \* {"a":1000,
                          Mem(<<110>>,                             \*  "n":{"l":
                        Obj(<< Mem(<<108>>, Arr(<< Num(-7),        \*  [-7,
                            Str(<<34, 233, 92>>),                  \*   "\"é\\",
                            Lit(<<110, 117, 108, 108>>),           \*   null,
                            Arr(<<>>) >>)) >>)) >>)] }             \*   []]}}

\* Text that is not JSON, sealed by another holder of the master key.
RawTexts == { <<104, 105>> }                                       \* hi

\* -------------------------------------------------------------- tampering
\* What a caller may have done to a record before presenting it: a sequence
\* of changes [f, k] of one field each.
FlipFirst(b) == IF b = <<>> THEN b
                ELSE [b EXCEPT ![1] = IF @ % 2 = 0 THEN @ + 1 ELSE @ - 1]
FlipLast(b) == IF b = <<>> THEN b
               ELSE [b EXCEPT ![Len(b)] = IF @ >= 128 THEN @ - 128 ELSE @ + 128]
\* The same hex digits in upper case.
ToUpper(s) == [i \in 1..Len(s) |-> IF IsLowerHex(s[i]) THEN s[i] - 32 ELSE s[i]]

Change(record, c) ==
    CASE c.k = "flip" ->
           [record EXCEPT ![c.f] = BufferToHex(FlipFirst(BufferFromHex(@)))]
      [] c.k = "fliplast" ->
           [record EXCEPT ![c.f] = BufferToHex(FlipLast(BufferFromHex(@)))]
      [] c.k = "short" -> [record EXCEPT ![c.f] = SubSeq(@, 1, Len(@) - 4)]
      [] c.k = "long" -> [record EXCEPT ![c.f] = @ \o <<97, 98, 99, 100>>]
      [] c.k = "nonhex" -> [record EXCEPT ![c.f] = <<122>> \o Tail(@)]
      [] c.k = "nonhexshort" ->
           [record EXCEPT ![c.f] = <<122>> \o SubSeq(@, 2, Len(@) - 4)]
      [] c.k = "empty" -> [record EXCEPT ![c.f] = <<>>]
      [] c.k = "upper" -> [record EXCEPT ![c.f] = ToUpper(@)]
      [] c.k = "odd" -> [record EXCEPT ![c.f] = @ \o <<97>>]
      [] c.k = "partyId" -> [record EXCEPT !.partyId = "party-999"]
      [] c.k = "createdAt" -> [record EXCEPT !.createdAt = @ + 100]
      [] c.k = "id" -> [record EXCEPT !.id = BufferToHex(FlipFirst(BufferFromHex(@)))]
      [] c.k = "alg" -> [record EXCEPT !.alg = "AES-128-CBC"]
      [] c.k = "version" -> [record EXCEPT !.mk_version = 2]

RECURSIVE Tamper(_, _)
Tamper(record, t) ==
    IF t = <<>> THEN record ELSE Tamper(Change(record, Head(t)), Tail(t))

HexFields ==
    << "payload_nonce", "payload_tag", "payload_ct",
       "dek_wrap_nonce", "dek_wrap_tag", "dek_wrapped" >>
HexFieldSet == {HexFields[i] : i \in 1..6}
Ch(f, k) == [f |-> f, k |-> k]

Tampers ==
    { <<>> }
    \cup { <<Ch(f, k)>> : f \in HexFieldSet, k \in {"flip", "short", "nonhex"} }
    \cup { <<Ch("payload_nonce", "long")>>, <<Ch("dek_wrap_tag", "long")>>,
           <<Ch("payload_ct", "empty")>>, <<Ch("dek_wrapped", "empty")>>,
           <<Ch("payload_ct", "fliplast")>>, <<Ch("dek_wrapped", "nonhexshort")>>,
           <<Ch("alg", "alg")>>, <<Ch("mk_version", "version")>>,
           <<Ch("alg", "alg"), Ch("mk_version", "version")>>,
           <<Ch("payload_ct", "flip"), Ch("alg", "alg")>>,
           <<Ch("dek_wrap_tag", "short"), Ch("mk_version", "version")>>,
           <<Ch("payload_tag", "nonhex"), Ch("dek_wrap_tag", "flip")>>,
           <<Ch("dek_wrapped", "empty"), Ch("payload_ct", "flip")>>,
           <<Ch("dek_wrap_nonce", "long")>>, <<Ch("payload_tag", "long")>>,
           <<Ch("payload_nonce", "nonhexshort")>>, <<Ch("dek_wrap_tag", "nonhexshort")>>,
           <<Ch("payload_nonce", "upper")>>, <<Ch("dek_wrapped", "upper")>>,
           <<Ch("payload_ct", "odd")>>, <<Ch("dek_wrap_nonce", "odd")>>,
           <<Ch("payload_tag", "odd")>>,
           <<Ch("partyId", "partyId")>>, <<Ch("createdAt", "createdAt")>>,
           <<Ch("id", "id")>>,
           <<Ch("partyId", "partyId"), Ch("createdAt", "createdAt"), Ch("id", "id")>> }
    \cup { <<Ch(p[1], "short"), Ch(p[2], "short")>> :
             p \in { <<"payload_tag", "dek_wrap_nonce">>,
                     <<"payload_ct", "dek_wrap_nonce">>,
                     <<"payload_ct", "dek_wrap_tag">>,
                     <<"payload_nonce", "payload_tag">>,
                     <<"dek_wrap_tag", "dek_wrapped">>,
                     <<"payload_nonce", "dek_wrap_nonce">> } }

\* The requests and the tampering of the restart scenarios.
RestartRequests == { r \in Requests : r.partyId = "party-123" }
RestartTampers == { <<>> } \cup { <<Ch(f, "flip")>> : f \in HexFieldSet }

\* ------------------------------------------------------------------ state
VARIABLES
    env,         \* process.env.MASTER_KEY ("" when unset)
    keyFile,     \* the file at KEY_FILE: [exists, content]
    proc,        \* "down" or "up" (the module is loaded)
    MASTER_KEY,  \* the module's constant, set when the module loads
    epochs,      \* one entry per module load: the key resolved and what
                 \* getMasterKey did to the key file
    gcm,         \* the graph of the cipher: every seal performed
    rnd,         \* random draws made so far
    clock,       \* calls of encryptTransaction so far (the time)
    issued,      \* the records returned so far, each with its request, the
                 \* master key, the module load and the number of seals then
    last,        \* the call that has just returned, until the caller takes it
    storage,     \* the API server's Map: entries [id, record] in insertion order
    reply,       \* the API server's response to the last request
    db,          \* the storage module: adapter, database in memory and on disk
    tasks,       \* the storage calls in progress (async functions)
    procs        \* processes starting side by side on one key file

vars == <<env, keyFile, proc, MASTER_KEY, epochs, gcm, rnd, clock, issued, last,
          storage, reply, db, tasks, procs>>
outerVars == <<storage, reply, db, tasks, procs>>

\* A call: the operation, the record of `issued` it is about, what the caller
\* changed in it, the record given to (or returned by) the call, the result.
Idle == [op |-> "idle", idx |-> 0, tamper |-> <<>>, given |-> NoRecord,
         out |-> Outcome("", Msg("", "", 0), NoValue, 0)]
Call(op, idx, tamper, given, out) ==
    [op |-> op, idx |-> idx, tamper |-> tamper, given |-> given, out |-> out]

\* No request answered yet; no adapter created; no call in progress.
NoReply == [req |-> "none", id |-> <<>>, sent |-> <<>>, status |-> 0,
            body |-> <<>>, calls |-> <<>>, got |-> NoRecord]
NoDb == [kind |-> "none"]

Fresh ==
    /\ storage = <<>>
    /\ reply = NoReply
    /\ db = NoDb
    /\ tasks = <<>>
    /\ procs = <<>>
    /\ proc = "down"
    /\ MASTER_KEY = <<>>
    /\ epochs = <<>>
    /\ gcm = <<>>
    /\ rnd = 0
    /\ clock = 0
    /\ issued = <<>>
    /\ last = Idle

\* A first deployment: no key file yet; MASTER_KEY unset, 64 hex digits or
\* 62 hex digits.
Init ==
    /\ env \in { e \in EnvChoices : Len(e) <= 64 }
    /\ keyFile = NoFile
    /\ Fresh

\* Any configuration of MASTER_KEY and the key file.
InitRestart ==
    /\ env \in EnvChoices
    /\ keyFile \in FileChoices
    /\ Fresh

\* The process starts: the module loads and MASTER_KEY = getMasterKey().
Start ==
    /\ proc = "down" /\ Len(epochs) < MaxStarts
    /\ LET k == getMasterKey(env, keyFile, rnd)
       IN  /\ MASTER_KEY' = k.key
           /\ keyFile' = k.file
           /\ rnd' = k.rnd
           /\ epochs' = Append(epochs, [key |-> k.key, fileBefore |-> keyFile,
                                        read |-> k.read, wrote |-> k.wrote,
                                        lost |-> FALSE])
    /\ proc' = "up"
    /\ UNCHANGED <<env, gcm, clock, issued, last>>
    /\ UNCHANGED outerVars

\* The process ends; the file system and the environment stay.
Stop ==
    /\ proc = "up" /\ last = Idle
    /\ proc' = "down"
    /\ MASTER_KEY' = <<>>
    /\ UNCHANGED <<env, keyFile, epochs, gcm, rnd, clock, issued, last>>
    /\ UNCHANGED outerVars

\* The key file is on an ephemeral disk and is gone at the next start.
LoseKeyFile ==
    /\ proc = "down" /\ epochs # <<>> /\ keyFile.exists
    /\ keyFile' = NoFile
    /\ epochs' = [epochs EXCEPT ![Len(epochs)].lost = TRUE]
    /\ UNCHANGED <<env, proc, MASTER_KEY, gcm, rnd, clock, issued, last>>
    /\ UNCHANGED outerVars

\* An encryptTransaction that replaces the module's master key as it returns.
SealedRekeys(e, req) ==
    /\ gcm' = e.gcm
    /\ rnd' = e.rnd + 1
    /\ clock' = clock + 1
    /\ issued' = IF e.threw THEN issued
                 ELSE Append(issued, [record |-> e.record, req |-> req,
                                      key |-> MASTER_KEY, epoch |-> Len(epochs),
                                      seals |-> Len(e.gcm)])
    /\ last' = Call("encrypt", IF e.threw THEN 0 ELSE Len(issued) + 1, <<>>,
                    e.record,
                    Outcome(IF e.threw THEN "RangeError" ELSE "ok",
                            Msg("", "", 0), NoValue, 0))
    /\ MASTER_KEY' = randomBytes(e.rnd, 32)
    /\ UNCHANGED <<env, keyFile, proc, epochs>>
    /\ UNCHANGED outerVars

Sealed(e, req) ==
    /\ gcm' = e.gcm
    /\ rnd' = e.rnd
    /\ clock' = clock + 1
    /\ issued' = IF e.threw THEN issued
                 ELSE Append(issued, [record |-> e.record, req |-> req,
                                      key |-> MASTER_KEY, epoch |-> Len(epochs),
                                      seals |-> Len(e.gcm)])
    /\ last' = Call("encrypt", IF e.threw THEN 0 ELSE Len(issued) + 1, <<>>,
                    e.record,
                    Outcome(IF e.threw THEN "RangeError" ELSE "ok",
                            Msg("", "", 0), NoValue, 0))
    /\ UNCHANGED <<env, keyFile, proc, MASTER_KEY, epochs>>
    /\ UNCHANGED outerVars

\* A caller encrypts one of the requests R.
Encrypt(R) ==
    /\ proc = "up" /\ last = Idle /\ clock < MaxEncodes
    /\ \E request \in R :
         Sealed(encryptTransaction(request, MASTER_KEY, rnd, gcm, clock),
                [partyId |-> request.partyId, payload |-> request.payload,
                 json |-> TRUE])

\* Another holder of the same master key seals text that is not JSON.
SealRaw ==
    /\ proc = "up" /\ last = Idle /\ clock < MaxEncodes
    /\ \E text \in RawTexts :
         Sealed(sealEnvelope("party-789", Utf8Encode(text), MASTER_KEY, rnd, gcm, clock),
                [partyId |-> "party-789", payload |-> Num(0), json |-> FALSE])

\* A caller presents a record it was given, changed by one of T, to
\* decryptTransaction.
Decrypt(T) ==
    /\ proc = "up" /\ last = Idle
    /\ \E idx \in 1..Len(issued), t \in T :
         LET record == Tamper(issued[idx].record, t)
         IN  last' = Call("decrypt", idx, t, record,
                          decryptTransaction(record, MASTER_KEY, gcm))
    /\ UNCHANGED <<env, keyFile, proc, MASTER_KEY, epochs, gcm, rnd, clock, issued>>
    /\ UNCHANGED outerVars

\* A caller presents a record to validateRecord.
Validate(T) ==
    /\ proc = "up" /\ last = Idle
    /\ \E idx \in 1..Len(issued), t \in T :
         LET record == Tamper(issued[idx].record, t)
             v == validateRecord(record)
         IN  last' = Call("validate", idx, t, record,
                          Outcome(IF v.threw THEN "ValidationError" ELSE "ok",
                                  v.message, NoValue, 0))
    /\ UNCHANGED <<env, keyFile, proc, MASTER_KEY, epochs, gcm, rnd, clock, issued>>
    /\ UNCHANGED outerVars

\* The caller takes the result of the call.
Return ==
    /\ last # Idle
    /\ last' = Idle
    /\ UNCHANGED <<env, keyFile, proc, MASTER_KEY, epochs, gcm, rnd, clock, issued>>
    /\ UNCHANGED outerVars

\* One process lifetime: the codec under every tampering.
Next ==
    \/ Start
    \/ Encrypt(Requests)
    \/ SealRaw
    \/ Decrypt(Tampers)
    \/ Validate(Tampers)
    \/ Return

Spec == Init /\ [][Next]_vars

\* Restarts of the process, with the key file kept or lost.
NextRestart ==
    \/ Start
    \/ Stop
    \/ LoseKeyFile
    \/ Encrypt(RestartRequests)
    \/ Decrypt(RestartTampers)
    \/ Return

SpecRestart == InitRestart /\ [][NextRestart]_vars

\* ---------------------------------------------------------- the API server
\* const storage = new Map(): entries [id, record] in insertion order.
MapIndex(map, id) ==
    LET hits == { k \in 1..Len(map) : map[k].id = id }
    IN  IF hits = {} THEN 0 ELSE CHOOSE k \in hits : TRUE
MapHas(map, id) == MapIndex(map, id) # 0
MapGet(map, id) == map[MapIndex(map, id)].record

\* A Map that keeps one entry only.
MapSetSingle(map, id, record) == << [id |-> id, record |-> record] >>

MapSet(map, id, record) ==
    IF MapHas(map, id)
    THEN [map EXCEPT ![MapIndex(map, id)].record = record]
    ELSE Append(map, [id |-> id, record |-> record])

\* request.body: absent (no body, or the JSON text null), or a JSON object
\* whose partyId and payload are JSON values or undefined.  Of a partyId the
\* handler uses typeof and, of a string, the string, which the records keep
\* as it is: Party(t, s).
Undefined == [t |-> "undefined", n |-> 0, s |-> <<>>, kids |-> <<>>]
Party(t, s) == [t |-> t, s |-> s]
NoBody == [given |-> FALSE, partyId |-> Party("undefined", ""), payload |-> Undefined]
Body(partyId, payload) == [given |-> TRUE, partyId |-> partyId, payload |-> payload]

Handled(status, body, calls, store, e, got) ==
    [status |-> status, body |-> body, calls |-> calls, storage |-> store,
     e |-> e, got |-> got]
NotSealed(r, g) == [threw |-> FALSE, record |-> NoRecord, gcm |-> g, rnd |-> r]

\* A handler of POST /tx/encrypt that sends the record it stored.
postEncryptSendsRecord(body, store, mk, r, g, now) ==
    LET e == encryptTransaction([partyId |-> body.partyId.s,
                                 payload |-> body.payload], mk, r, g, now)
    IN  IF ~body.given
        THEN Handled(500, [error |-> "Encryption failed", message |-> "TypeError"],
                     <<>>, store, NotSealed(r, g), NoRecord)
        ELSE IF body.partyId.t # "str" \/ body.partyId.s = ""
        THEN Handled(400, [error |-> "partyId is required and must be a string"],
                     <<>>, store, NotSealed(r, g), NoRecord)
        ELSE IF body.payload.t \notin {"obj", "arr"}
        THEN Handled(400, [error |-> "payload is required and must be an object"],
                     <<>>, store, NotSealed(r, g), NoRecord)
        ELSE IF e.threw
        THEN Handled(500, [error |-> "Encryption failed",
                           message |-> "Invalid key length"],
                     <<"encryptTransaction">>, store, e, NoRecord)
        ELSE Handled(201, e.record, <<"encryptTransaction">>,
                     MapSet(store, e.record.id, e.record), e, e.record)

\* POST /tx/encrypt.  Destructuring an absent body throws a TypeError, which
\* the handler's catch answers; !partyId || typeof partyId !== "string" holds
\* of everything but a string that is not empty; !payload || typeof payload
\* !== "object" holds of everything but an object or an array.
postEncrypt(body, store, mk, r, g, now) ==
    LET e == encryptTransaction([partyId |-> body.partyId.s,
                                 payload |-> body.payload], mk, r, g, now)
    IN  IF ~body.given
        THEN Handled(500, [error |-> "Encryption failed", message |-> "TypeError"],
                     <<>>, store, NotSealed(r, g), NoRecord)
        ELSE IF body.partyId.t # "str" \/ body.partyId.s = ""
        THEN Handled(400, [error |-> "partyId is required and must be a string"],
                     <<>>, store, NotSealed(r, g), NoRecord)
        ELSE IF body.payload.t \notin {"obj", "arr"}
        THEN Handled(400, [error |-> "payload is required and must be an object"],
                     <<>>, store, NotSealed(r, g), NoRecord)
        ELSE IF e.threw
        THEN Handled(500, [error |-> "Encryption failed",
                           message |-> "Invalid key length"],
                     <<"encryptTransaction">>, store, e, NoRecord)
        ELSE Handled(201,
                     [id |-> e.record.id, partyId |-> e.record.partyId,
                      createdAt |-> e.record.createdAt, alg |-> e.record.alg,
                      mk_version |-> e.record.mk_version],
                     <<"encryptTransaction">>,
                     MapSet(store, e.record.id, e.record), e, e.record)

\* GET /tx/:id
getTx(id, store, r, g) ==
    IF ~MapHas(store, id)
    THEN Handled(404, [error |-> "Transaction not found"], <<>>, store,
                 NotSealed(r, g), NoRecord)
    ELSE Handled(200, MapGet(store, id), <<>>, store, NotSealed(r, g),
                 MapGet(store, id))

\* A handler of POST /tx/:id/decrypt with one label for every failure.
postDecryptOneLabel(id, store, mk, r, g) ==
    LET record == MapGet(store, id)
        v == validateRecord(record)
        d == decryptTransaction(record, mk, g)
    IN  IF ~MapHas(store, id)
        THEN Handled(404, [error |-> "Transaction not found"], <<>>, store,
                     NotSealed(r, g), NoRecord)
        ELSE IF v.threw
        THEN Handled(400, [error |-> "Decryption failed", message |-> v.message],
                     <<"validateRecord">>, store, NotSealed(r, g), record)
        ELSE IF d.kind = "ValidationError"
        THEN Handled(400, [error |-> "Decryption failed", message |-> d.message],
                     <<"validateRecord", "decryptTransaction">>, store,
                     NotSealed(r, g), record)
        ELSE IF d.kind = "DecryptionError"
        THEN Handled(400, [error |-> "Decryption failed", message |-> d.message],
                     <<"validateRecord", "decryptTransaction">>, store,
                     NotSealed(r, g), record)
        ELSE Handled(200,
                     [id |-> id, partyId |-> d.value.partyId,
                      payload |-> d.value.payload, createdAt |-> d.value.createdAt],
                     <<"validateRecord", "decryptTransaction">>, store,
                     NotSealed(r, g), record)

\* A handler of POST /tx/:id/decrypt that leaves validateRecord out.
postDecryptUnvalidated(id, store, mk, r, g) ==
    LET record == MapGet(store, id)
        d == decryptTransaction(record, mk, g)
    IN  IF ~MapHas(store, id)
        THEN Handled(404, [error |-> "Transaction not found"], <<>>, store,
                     NotSealed(r, g), NoRecord)
        ELSE IF d.kind = "ValidationError"
        THEN Handled(400, [error |-> "Validation failed", message |-> d.message],
                     <<"decryptTransaction">>, store, NotSealed(r, g), record)
        ELSE IF d.kind = "DecryptionError"
        THEN Handled(400, [error |-> "Decryption failed", message |-> d.message],
                     <<"decryptTransaction">>, store, NotSealed(r, g), record)
        ELSE Handled(200,
                     [id |-> id, partyId |-> d.value.partyId,
                      payload |-> d.value.payload, createdAt |-> d.value.createdAt],
                     <<"decryptTransaction">>, store, NotSealed(r, g), record)

\* POST /tx/:id/decrypt
postDecrypt(id, store, mk, r, g) ==
    LET record == MapGet(store, id)
        v == validateRecord(record)
        d == decryptTransaction(record, mk, g)
    IN  IF ~MapHas(store, id)
        THEN Handled(404, [error |-> "Transaction not found"], <<>>, store,
                     NotSealed(r, g), NoRecord)
        ELSE IF v.threw
        THEN Handled(400, [error |-> "Validation failed", message |-> v.message],
                     <<"validateRecord">>, store, NotSealed(r, g), record)
        ELSE IF d.kind = "ValidationError"
        THEN Handled(400, [error |-> "Validation failed", message |-> d.message],
                     <<"validateRecord", "decryptTransaction">>, store,
                     NotSealed(r, g), record)
        ELSE IF d.kind = "DecryptionError"
        THEN Handled(400, [error |-> "Decryption failed", message |-> d.message],
                     <<"validateRecord", "decryptTransaction">>, store,
                     NotSealed(r, g), record)
        ELSE Handled(200,
                     [id |-> id, partyId |-> d.value.partyId,
                      payload |-> d.value.payload, createdAt |-> d.value.createdAt],
                     <<"validateRecord", "decryptTransaction">>, store,
                     NotSealed(r, g), record)

\* The bodies a client posts to /tx/encrypt: two well formed (an object, an
\* array), then no body, no partyId, partyId "", partyId 7, no payload,
\* payload null, payload 5, payload "hi".
GoodBodies ==
    { Body(Party("str", "party-123"), Obj(<< Mem(<<97>>, Num(100)) >>)),
      Body(Party("str", "party-456"), Arr(<< Num(1), Str(<<104, 105>>) >>)) }
BadBodies ==
    { NoBody,
      Body(Party("undefined", ""), Obj(<<>>)),
      Body(Party("str", ""), Obj(<<>>)),
      Body(Party("num", ""), Obj(<<>>)),
      Body(Party("str", "party-123"), Undefined),
      Body(Party("str", "party-123"), Lit(<<110, 117, 108, 108>>)),
      Body(Party("str", "party-123"), Num(5)),
      Body(Party("str", "party-123"), Str(<<104, 105>>)) }
Bodies == GoodBodies \cup BadBodies

\* The ids a client asks for: every id it was given, and one it was not.
UnknownId == <<110, 111, 110, 101>>                                  \* none
Ids(given) == { given[k].record.id : k \in 1..Len(given) } \cup { UnknownId }

\* What a stored record can have become outside the handlers.
StoreEdits ==
    { <<Ch(f, "flip")>> : f \in HexFieldSet }
    \cup { <<Ch("payload_nonce", "short")>>, <<Ch("payload_tag", "nonhex")>>,
           <<Ch("payload_ct", "empty")>>, <<Ch("dek_wrap_nonce", "nonhex")>>,
           <<Ch("dek_wrap_tag", "short")>>, <<Ch("dek_wrapped", "empty")>>,
           <<Ch("alg", "alg")>>, <<Ch("mk_version", "version")>>,
           <<Ch("payload_ct", "flip"), Ch("alg", "alg")>>,
           <<Ch("dek_wrap_tag", "short"), Ch("mk_version", "version")>>,
           <<Ch("payload_tag", "short"), Ch("dek_wrap_nonce", "short")>>,
           <<Ch("payload_ct", "empty"), Ch("dek_wrap_nonce", "short")>>,
           <<Ch("partyId", "partyId")>> }

Replied(req, id, sent, h) ==
    [req |-> req, id |-> id, sent |-> sent, status |-> h.status,
     body |-> h.body, calls |-> h.calls, got |-> h.got]

\* A client posts one of the bodies B to /tx/encrypt.
PostEncrypt(B) ==
    /\ proc = "up" /\ clock < MaxEncodes
    /\ \E body \in B :
         LET h == postEncrypt(body, storage, MASTER_KEY, rnd, gcm, clock)
         IN  /\ storage' = h.storage
             /\ reply' = Replied("encrypt", <<>>, body, h)
             /\ gcm' = h.e.gcm
             /\ rnd' = h.e.rnd
             /\ clock' = IF h.calls = <<>> THEN clock ELSE clock + 1
             /\ issued' = IF h.status # 201 THEN issued
                          ELSE Append(issued,
                                      [record |-> h.e.record,
                                       req |-> [partyId |-> body.partyId.s,
                                                payload |-> body.payload,
                                                json |-> TRUE],
                                       key |-> MASTER_KEY, epoch |-> Len(epochs),
                                       seals |-> Len(h.e.gcm)])
    /\ UNCHANGED <<env, keyFile, proc, MASTER_KEY, epochs, last, db, tasks, procs>>

\* A client gets /tx/:id.
GetTx ==
    /\ proc = "up"
    /\ \E id \in Ids(issued) :
         LET h == getTx(id, storage, rnd, gcm)
         IN  /\ storage' = h.storage
             /\ reply' = Replied("get", id, NoBody, h)
    /\ UNCHANGED <<env, keyFile, proc, MASTER_KEY, epochs, gcm, rnd, clock, issued,
                   last, db, tasks, procs>>

\* A client posts to /tx/:id/decrypt.
PostDecrypt ==
    /\ proc = "up"
    /\ \E id \in Ids(issued) :
         LET h == postDecrypt(id, storage, MASTER_KEY, rnd, gcm)
         IN  /\ storage' = h.storage
             /\ reply' = Replied("decrypt", id, NoBody, h)
    /\ UNCHANGED <<env, keyFile, proc, MASTER_KEY, epochs, gcm, rnd, clock, issued,
                   last, db, tasks, procs>>

\* Between two requests, a record in the store is changed by something other
\* than the handlers (the store is a database in the deployed service); one
\* record at most.
StoreEdited(E) ==
    /\ proc = "up"
    /\ \A k \in 1..Len(storage) : storage[k].record = issued[k].record
    /\ \E k \in 1..Len(storage), t \in E :
         storage' = [storage EXCEPT ![k].record = Tamper(@, t)]
    /\ reply' = NoReply
    /\ UNCHANGED <<env, keyFile, proc, MASTER_KEY, epochs, gcm, rnd, clock, issued,
                   last, db, tasks, procs>>

\* The server as built: the three routes over the Map.
NextHttp ==
    \/ Start
    \/ PostEncrypt(Bodies)
    \/ GetTx
    \/ PostDecrypt

SpecHttp == Init /\ [][NextHttp]_vars

\* The write and the decrypt route over a store that is also written from
\* outside (GET /tx/:id leaves the store as it is).
NextHttpEdited ==
    \/ Start
    \/ PostEncrypt(GoodBodies)
    \/ PostDecrypt
    \/ StoreEdited(StoreEdits)

SpecHttpEdited == Init /\ [][NextHttpEdited]_vars

\* ------------------------------------------------------------- the storage
\* Rows of the table transactions.  The SQLite table names its columns as the
\* record names its fields; the PostgreSQL table has party_id and created_at.
\* Both add created_timestamp, which the record read back leaves out.
ToRowSqlite(record, now) ==
    [id |-> record.id, partyId |-> record.partyId, createdAt |-> record.createdAt,
     payload_nonce |-> record.payload_nonce, payload_ct |-> record.payload_ct,
     payload_tag |-> record.payload_tag, dek_wrap_nonce |-> record.dek_wrap_nonce,
     dek_wrapped |-> record.dek_wrapped, dek_wrap_tag |-> record.dek_wrap_tag,
     alg |-> record.alg, mk_version |-> record.mk_version,
     created_timestamp |-> now]

\* A read that takes the wrapped DEK's tag for the payload's.
FromRowSqliteTagsMixed(row) ==
    [id |-> row.id, partyId |-> row.partyId, createdAt |-> row.createdAt,
     payload_nonce |-> row.payload_nonce, payload_ct |-> row.payload_ct,
     payload_tag |-> row.dek_wrap_tag, dek_wrap_nonce |-> row.dek_wrap_nonce,
     dek_wrapped |-> row.dek_wrapped, dek_wrap_tag |-> row.dek_wrap_tag,
     alg |-> row.alg, mk_version |-> row.mk_version]

FromRowSqlite(row) ==
    [id |-> row.id, partyId |-> row.partyId, createdAt |-> row.createdAt,
     payload_nonce |-> row.payload_nonce, payload_ct |-> row.payload_ct,
     payload_tag |-> row.payload_tag, dek_wrap_nonce |-> row.dek_wrap_nonce,
     dek_wrapped |-> row.dek_wrapped, dek_wrap_tag |-> row.dek_wrap_tag,
     alg |-> row.alg, mk_version |-> row.mk_version]

ToRowPg(record, now) ==
    [id |-> record.id, party_id |-> record.partyId, created_at |-> record.createdAt,
     payload_nonce |-> record.payload_nonce, payload_ct |-> record.payload_ct,
     payload_tag |-> record.payload_tag, dek_wrap_nonce |-> record.dek_wrap_nonce,
     dek_wrapped |-> record.dek_wrapped, dek_wrap_tag |-> record.dek_wrap_tag,
     alg |-> record.alg, mk_version |-> record.mk_version,
     created_timestamp |-> now]

FromRowPg(row) ==
    [id |-> row.id, partyId |-> row.party_id, createdAt |-> row.created_at,
     payload_nonce |-> row.payload_nonce, payload_ct |-> row.payload_ct,
     payload_tag |-> row.payload_tag, dek_wrap_nonce |-> row.dek_wrap_nonce,
     dek_wrapped |-> row.dek_wrapped, dek_wrap_tag |-> row.dek_wrap_tag,
     alg |-> row.alg, mk_version |-> row.mk_version]

\* SQL on the table: id is the primary key, so INSERT of an id that is there
\* fails; SELECT ... WHERE id; DELETE ... WHERE id with its row count.
RowIndex(rows, id) ==
    LET hits == { k \in 1..Len(rows) : rows[k].id = id }
    IN  IF hits = {} THEN 0 ELSE CHOOSE k \in hits : TRUE
Insert(rows, row) ==
    IF RowIndex(rows, row.id) # 0 THEN [threw |-> TRUE, rows |-> rows]
    ELSE [threw |-> FALSE, rows |-> Append(rows, row)]
Delete(rows, id) ==
    [rowCount |-> IF RowIndex(rows, id) # 0 THEN 1 ELSE 0,
     rows |-> SelectSeq(rows, LAMBDA row : row.id # id)]

\* The storage module of one process and what outlives the process:
\*   use     "sqlite" or "pg" (USE_POSTGRES)
\*   lazy    "getAdapter" (the module with the two adapters) or "getDb" (the
\*           SQLite module of the built server)
\*   insts   the adapters or Database objects made in this process; ready is
\*           set when init has assigned this.db or this.pool
\*   cur     dbAdapter, or db of the SQLite module: 0 is null, else an inst
\*   file    transactions.db;  server  the PostgreSQL table
\*   inits   how many initialisations this process has begun
\*   kept    the records whose storeTransaction has returned and that no
\*           deleteTransaction that returned has removed
\*   ever    the ids of the records whose storeTransaction has returned
NoDbFile == [exists |-> FALSE, rows |-> <<>>]
NewDb(use, lazy) ==
    [kind |-> "db", use |-> use, lazy |-> lazy, cur |-> 0, insts |-> <<>>,
     file |-> NoDbFile, server |-> <<>>, inits |-> 0, kept |-> {}, ever |-> {}]

\* getAdapter, or getDb, up to its first await, when nothing is there yet.
\* getAdapter assigns dbAdapter before init has run; getDb assigns db only
\* when initDatabase has returned.
lazyStart(d) ==
    [d EXCEPT !.insts = Append(@, [ready |-> FALSE, rows |-> <<>>]),
              !.cur = IF d.lazy = "getAdapter" THEN Len(d.insts) + 1 ELSE @,
              !.inits = @ + 1]

\* init / initDatabase from its last await on: the file is loaded if there
\* is one, the table is created if it is missing.
initDone(d, i) ==
    [d EXCEPT !.insts[i] = [ready |-> TRUE,
                            rows |-> IF d.use = "sqlite" /\ d.file.exists
                                     THEN d.file.rows ELSE <<>>],
              !.cur = IF d.lazy = "getDb" THEN i ELSE @]

\* A saveDatabase that leaves the writing to the periodic save.
saveDatabaseLater(d, i) == d

\* saveDatabase: SQLiteAdapter writes this.db, the SQLite module writes db.
saveDatabase(d, i) ==
    LET j == IF d.lazy = "getDb" THEN d.cur ELSE i
    IN  IF j = 0 \/ ~d.insts[j].ready THEN d
        ELSE [d EXCEPT !.file = [exists |-> TRUE, rows |-> d.insts[j].rows]]

Ret(d, kind, record, flag) ==
    [db |-> d, kind |-> kind, record |-> record, flag |-> flag]

\* The methods of the adapters, on inst i.  kind is "returned" or "threw"; a
\* method of an adapter whose init has not assigned this.db or this.pool
\* throws a TypeError.
SQLiteStoreTransaction(d, i, record, now) ==
    LET ins == Insert(d.insts[i].rows, ToRowSqlite(record, now))
    IN  IF ~d.insts[i].ready \/ ins.threw THEN Ret(d, "threw", NoRecord, FALSE)
        ELSE Ret(saveDatabase([d EXCEPT !.insts[i].rows = ins.rows], i),
                 "returned", NoRecord, FALSE)

PostgresStoreTransaction(d, i, record, now) ==
    LET ins == Insert(d.server, ToRowPg(record, now))
    IN  IF ~d.insts[i].ready \/ ins.threw THEN Ret(d, "threw", NoRecord, FALSE)
        ELSE Ret([d EXCEPT !.server = ins.rows], "returned", NoRecord, FALSE)

\* flag tells a record from undefined.
SQLiteGetTransaction(d, i, id) ==
    LET k == RowIndex(d.insts[i].rows, id)
    IN  IF ~d.insts[i].ready THEN Ret(d, "threw", NoRecord, FALSE)
        ELSE IF k = 0 THEN Ret(d, "returned", NoRecord, FALSE)
        ELSE Ret(d, "returned", FromRowSqlite(d.insts[i].rows[k]), TRUE)

PostgresGetTransaction(d, i, id) ==
    LET k == RowIndex(d.server, id)
    IN  IF ~d.insts[i].ready THEN Ret(d, "threw", NoRecord, FALSE)
        ELSE IF k = 0 THEN Ret(d, "returned", NoRecord, FALSE)
        ELSE Ret(d, "returned", FromRowPg(d.server[k]), TRUE)

\* flag is the boolean returned.
SQLiteDeleteTransaction(d, i, id) ==
    LET del == Delete(d.insts[i].rows, id)
    IN  IF ~d.insts[i].ready THEN Ret(d, "threw", NoRecord, FALSE)
        ELSE Ret(saveDatabase([d EXCEPT !.insts[i].rows = del.rows], i),
                 "returned", NoRecord, TRUE)

PostgresDeleteTransaction(d, i, id) ==
    LET del == Delete(d.server, id)
    IN  IF ~d.insts[i].ready THEN Ret(d, "threw", NoRecord, FALSE)
        ELSE Ret([d EXCEPT !.server = del.rows], "returned", NoRecord,
                 del.rowCount > 0)

\* The exported function op from the return of getAdapter / getDb on.
Method(op, d, i, record, id, now) ==
    CASE op = "store" /\ d.use = "sqlite" -> SQLiteStoreTransaction(d, i, record, now)
      [] op = "store" /\ d.use = "pg" -> PostgresStoreTransaction(d, i, record, now)
      [] op = "get" /\ d.use = "sqlite" -> SQLiteGetTransaction(d, i, id)
      [] op = "get" /\ d.use = "pg" -> PostgresGetTransaction(d, i, id)
      [] op = "delete" /\ d.use = "sqlite" -> SQLiteDeleteTransaction(d, i, id)
      [] op = "delete" /\ d.use = "pg" -> PostgresDeleteTransaction(d, i, id)

\* The records the store holds: what a process that starts now would read.
Stored(d) ==
    IF d.use = "pg" THEN { FromRowPg(d.server[k]) : k \in 1..Len(d.server) }
    ELSE IF d.cur # 0 /\ d.insts[d.cur].ready
    THEN { FromRowSqlite(d.insts[d.cur].rows[k]) :
             k \in 1..Len(d.insts[d.cur].rows) }
    ELSE { FromRowSqlite(d.file.rows[k]) : k \in 1..Len(d.file.rows) }

\* The service was started with a configured key and has encrypted two
\* requests: the records the storage is given.
Sampled ==
    LET q1 == CHOOSE q \in Requests : q.partyId = "party-123"
        q2 == CHOOSE q \in Requests : q.partyId = "party-456"
        k == getMasterKey(BufferToHex(ConfigKey), NoFile, 0)
        e1 == encryptTransaction(q1, k.key, k.rnd, <<>>, 0)
        e2 == encryptTransaction(q2, k.key, e1.rnd, e1.gcm, 1)
        entry(e, q) == [record |-> e.record,
                        req |-> [partyId |-> q.partyId, payload |-> q.payload,
                                 json |-> TRUE],
                        key |-> k.key, epoch |-> 1, seals |-> Len(e.gcm)]
    IN  [k |-> k, rnd |-> e2.rnd, gcm |-> e2.gcm,
         issued |-> << entry(e1, q1), entry(e2, q2) >>]

DbChoices ==
    { NewDb("sqlite", "getAdapter"), NewDb("sqlite", "getDb"),
      NewDb("pg", "getAdapter") }

InitStore ==
    /\ env = BufferToHex(ConfigKey)
    /\ keyFile = Sampled.k.file
    /\ proc = "up"
    /\ MASTER_KEY = Sampled.k.key
    /\ epochs = << [key |-> Sampled.k.key, fileBefore |-> NoFile,
                    read |-> Sampled.k.read, wrote |-> Sampled.k.wrote,
                    lost |-> FALSE] >>
    /\ gcm = Sampled.gcm
    /\ rnd = Sampled.rnd
    /\ clock = 2
    /\ issued = Sampled.issued
    /\ last = Idle
    /\ storage = <<>>
    /\ reply = NoReply
    /\ db \in DbChoices
    /\ tasks = <<>>
    /\ procs = <<>>

\* The records and ids the callers pass: each issued record as it is, with a
\* hex digit appended to payload_ct, and with dek_wrapped in upper case (three
\* records under one id); each id, and one that was never issued.
StoreVariants ==
    { <<>>, <<Ch("payload_ct", "odd")>>, <<Ch("dek_wrapped", "upper")>> }
StoreRecords ==
    { Tamper(issued[k].record, t) : k \in 1..Len(issued), t \in StoreVariants }
LazyRecords == { issued[k].record : k \in 1..Len(issued) }
LazyIds == { issued[1].record.id }

NoOut == [kind |-> "", record |-> NoRecord, flag |-> FALSE]
Finished(t) == t.pc \in {"returned", "threw"}

\* A caller calls storeTransaction(record), getTransaction(id) or
\* deleteTransaction(id); the call runs up to the await in its first line.
\* rest is the calls already there.  Of a call, knew is kept when it was
\* made, held is kept when its method ran, was and left are the records the
\* store held before and after its method ran.
Invoke(R, I, rest) ==
    /\ \E c \in { [op |-> "store", record |-> r, id |-> r.id] : r \in R }
               \cup { [op |-> o, record |-> NoRecord, id |-> i] :
                        o \in {"get", "delete"}, i \in I } :
         tasks' = Append(rest,
                         [op |-> c.op, record |-> c.record, id |-> c.id,
                          pc |-> IF db.cur = 0 THEN "init" ELSE "got",
                          inst |-> IF db.cur = 0 THEN Len(db.insts) + 1 ELSE db.cur,
                          knew |-> db.kept, held |-> {}, was |-> {},
                          left |-> {}, out |-> NoOut])
    /\ db' = IF db.cur = 0 THEN lazyStart(db) ELSE db
    /\ UNCHANGED <<env, keyFile, proc, MASTER_KEY, epochs, gcm, rnd, clock, issued,
                   last, storage, reply, procs>>

\* Calls one after the other: the caller awaits each before the next.
CallInTurn(R, I) ==
    /\ \A n \in 1..Len(tasks) : Finished(tasks[n])
    /\ Invoke(R, I, <<>>)

\* Calls that do not wait for one another: at most MaxTasks in progress.
InProgress == SelectSeq(tasks, LAMBDA t : ~Finished(t))
CallAtOnce(R, I) ==
    /\ Len(InProgress) < MaxTasks
    /\ Invoke(R, I, InProgress)

\* The initialisation a call began completes; getAdapter / getDb returns.
InitDone ==
    /\ \E n \in 1..Len(tasks) :
         /\ tasks[n].pc = "init"
         /\ db' = initDone(db, tasks[n].inst)
         /\ tasks' = [tasks EXCEPT ![n].pc = "got"]
    /\ UNCHANGED <<env, keyFile, proc, MASTER_KEY, epochs, gcm, rnd, clock, issued,
                   last, storage, reply, procs>>

\* A call that has its adapter or database runs to its end.
Run ==
    /\ \E n \in 1..Len(tasks) :
         LET t == tasks[n]
             r == Method(t.op, db, t.inst, t.record, t.id, clock)
         IN  /\ t.pc = "got"
             /\ db' = [r.db EXCEPT
                         !.kept = CASE r.kind = "threw" -> @
                                    [] t.op = "store" -> @ \cup {t.record}
                                    [] t.op = "delete" ->
                                         { x \in @ : x.id # t.id }
                                    [] OTHER -> @,
                         !.ever = IF r.kind = "returned" /\ t.op = "store"
                                  THEN @ \cup {t.id} ELSE @]
             /\ tasks' = [tasks EXCEPT ![n].pc = r.kind,
                                       ![n].held = db.kept,
                                       ![n].was = Stored(db),
                                       ![n].left = Stored(r.db),
                                       ![n].out = [kind |-> r.kind,
                                                   record |-> r.record,
                                                   flag |-> r.flag]]
    /\ UNCHANGED <<env, keyFile, proc, MASTER_KEY, epochs, gcm, rnd, clock, issued,
                   last, storage, reply, procs>>

\* The process ends and another starts: what was in memory is gone, the
\* database file and the PostgreSQL table stay.
Restart ==
    /\ db.cur # 0 \/ tasks # <<>>
    /\ db' = [db EXCEPT !.cur = 0, !.insts = <<>>, !.inits = 0]
    /\ tasks' = <<>>
    /\ UNCHANGED <<env, keyFile, proc, MASTER_KEY, epochs, gcm, rnd, clock, issued,
                   last, storage, reply, procs>>

\* The storage called by one caller at a time, over restarts.
NextStore ==
    \/ CallInTurn(StoreRecords, Ids(issued))
    \/ InitDone
    \/ Run
    \/ Restart

SpecStore == InitStore /\ [][NextStore]_vars

\* The calls of a process from its first on, not waiting for one another.
NextLazy ==
    \/ CallAtOnce(LazyRecords, LazyIds)
    \/ InitDone
    \/ Run

SpecLazy == InitStore /\ [][NextLazy]_vars

\* ------------------------------------------------- processes side by side
\* Processes that share the key file and have no MASTER_KEY configured, each
\* loading the module: getMasterKey step by step, one step per file system
\* call.  pc is where the process stands: "new", "read" (existsSync was
\* true), "generate" (it was false), "open" and "write" (the two halves of
\* writeFileSync: the file is created or truncated, then filled), "up".
\* out is the outcome of the last decryptTransaction of the process.
NewProc == [pc |-> "new", key |-> <<>>, newKey |-> <<>>,
            out |-> [idx |-> 0, kind |-> ""]]

InitRace ==
    /\ env = <<>>
    /\ keyFile = NoFile
    /\ procs = [p \in 1..MaxProcs |-> NewProc]
    /\ proc = "down"
    /\ MASTER_KEY = <<>>
    /\ epochs = <<>>
    /\ gcm = <<>>
    /\ rnd = 0
    /\ clock = 0
    /\ issued = <<>>
    /\ last = Idle
    /\ storage = <<>>
    /\ reply = NoReply
    /\ db = NoDb
    /\ tasks = <<>>

\* if (process.env.MASTER_KEY) is false; if (existsSync(KEY_FILE))
CheckFile(p) ==
    /\ procs[p].pc = "new"
    /\ procs' = [procs EXCEPT ![p].pc = IF keyFile.exists THEN "read"
                                        ELSE "generate"]
    /\ UNCHANGED <<env, keyFile, proc, MASTER_KEY, epochs, gcm, rnd, clock, issued,
                   last, storage, reply, db, tasks>>

\* readFileSync(KEY_FILE, "utf-8").trim(), Buffer.from(keyHex, "hex")
ReadKey(p) ==
    /\ procs[p].pc = "read"
    /\ procs' = [procs EXCEPT ![p].pc = "up",
                              ![p].key = BufferFromHex(Trim(keyFile.content))]
    /\ UNCHANGED <<env, keyFile, proc, MASTER_KEY, epochs, gcm, rnd, clock, issued,
                   last, storage, reply, db, tasks>>

\* const newKey = randomBytes(32)
GenerateKey(p) ==
    /\ procs[p].pc = "generate"
    /\ procs' = [procs EXCEPT ![p].pc = "open",
                              ![p].newKey = randomBytes(rnd, 32)]
    /\ rnd' = rnd + 1
    /\ UNCHANGED <<env, keyFile, proc, MASTER_KEY, epochs, gcm, clock, issued,
                   last, storage, reply, db, tasks>>

\* writeFileSync(KEY_FILE, keyHex, "utf-8"): the file is opened for writing,
\* which creates it empty or empties it,
OpenFile(p) ==
    /\ procs[p].pc = "open"
    /\ keyFile' = FileOf(<<>>)
    /\ procs' = [procs EXCEPT ![p].pc = "write"]
    /\ UNCHANGED <<env, proc, MASTER_KEY, epochs, gcm, rnd, clock, issued,
                   last, storage, reply, db, tasks>>

\* and the key is written; getMasterKey returns newKey.
WriteFile(p) ==
    /\ procs[p].pc = "write"
    /\ keyFile' = FileOf(BufferToHex(procs[p].newKey))
    /\ procs' = [procs EXCEPT ![p].pc = "up", ![p].key = procs[p].newKey]
    /\ UNCHANGED <<env, proc, MASTER_KEY, epochs, gcm, rnd, clock, issued,
                   last, storage, reply, db, tasks>>

\* A process that is up encrypts a request.
EncryptBy(p) ==
    /\ procs[p].pc = "up" /\ clock < MaxEncodes
    /\ \E request \in RestartRequests :
         LET e == encryptTransaction(request, procs[p].key, rnd, gcm, clock)
         IN  /\ gcm' = e.gcm
             /\ rnd' = e.rnd
             /\ clock' = clock + 1
             /\ issued' = IF e.threw THEN issued
                          ELSE Append(issued,
                                      [record |-> e.record,
                                       req |-> [partyId |-> request.partyId,
                                                payload |-> request.payload,
                                                json |-> TRUE],
                                       key |-> procs[p].key, epoch |-> p,
                                       seals |-> Len(e.gcm)])
    /\ UNCHANGED <<env, keyFile, proc, MASTER_KEY, epochs, last, storage, reply,
                   db, tasks, procs>>

\* A process that is up decrypts a record one of them issued.
DecryptBy(p) ==
    /\ procs[p].pc = "up"
    /\ \E idx \in 1..Len(issued) :
         procs' = [procs EXCEPT ![p].out =
                      [idx |-> idx,
                       kind |-> decryptTransaction(issued[idx].record,
                                                   procs[p].key, gcm).kind]]
    /\ UNCHANGED <<env, keyFile, proc, MASTER_KEY, epochs, gcm, rnd, clock, issued,
                   last, storage, reply, db, tasks>>

\* A process that is up ends and is started again.
StartAgain(p) ==
    /\ procs[p].pc = "up"
    /\ procs' = [procs EXCEPT ![p] = NewProc]
    /\ UNCHANGED <<env, keyFile, proc, MASTER_KEY, epochs, gcm, rnd, clock, issued,
                   last, storage, reply, db, tasks>>

NextRace ==
    \E p \in 1..MaxProcs :
        \/ CheckFile(p)
        \/ ReadKey(p)
        \/ GenerateKey(p)
        \/ OpenFile(p)
        \/ WriteFile(p)
        \/ EncryptBy(p)
        \/ DecryptBy(p)
        \/ StartAgain(p)

SpecRace == InitRace /\ [][NextRace]_vars

\* ----------------------------------------------------------------- claims
\* The record the last call was given, and the entry it was made from.
Entry == issued[last.idx]
Presented == last.given

\* The structural requirements on the six hex fields, as the specification
\* states them.
HexOnly(s) == \A i \in 1..Len(s) : s[i] \in (48..57) \cup (65..70) \cup (97..102)
NonceOk(s) == HexOnly(s) /\ Len(s) \div 2 = 12
TagOk(s) == HexOnly(s) /\ Len(s) \div 2 = 16
CtOk(s) == HexOnly(s) /\ Len(s) > 0
FieldOk(record, f) ==
    CASE f \in {"payload_nonce", "dek_wrap_nonce"} -> NonceOk(record[f])
      [] f \in {"payload_tag", "dek_wrap_tag"} -> TagOk(record[f])
      [] f \in {"payload_ct", "dek_wrapped"} -> CtOk(record[f])
      [] f = "alg" -> record.alg = "AES-256-GCM"
      [] f = "mk_version" -> record.mk_version = 1
StructOk(record) == \A f \in HexFieldSet : FieldOk(record, f)

\* The six fields of r denote the bytes of the six fields of q.
SameBytes(r, q) ==
    \A f \in HexFieldSet : BufferFromHex(r[f]) = BufferFromHex(q[f])

\* C1 (as claimed): encryptTransaction returns a record for every request,
\* and decryptTransaction of that record under the same master key returns
\* the request's payload and partyId and the record's createdAt.
C1_RoundTrip ==
    /\ last.op = "encrypt" => last.out.kind = "ok"
    /\ (last.op = "decrypt" /\ last.tamper = <<>> /\ Entry.req.json
        /\ Entry.key = MASTER_KEY)
       => /\ last.out.kind = "ok"
          /\ last.out.value.payload = Entry.req.payload
          /\ last.out.value.partyId = Entry.req.partyId
          /\ last.out.value.createdAt = Entry.record.createdAt

\* The round trip where the master key has 32 bytes (not C1: C1 makes no
\* such proviso).
RoundTripUnderUsableKey ==
    /\ (last.op = "encrypt" /\ Len(MASTER_KEY) = 32) => last.out.kind = "ok"
    /\ (last.op = "decrypt" /\ last.tamper = <<>> /\ Entry.req.json
        /\ Entry.key = MASTER_KEY)
       => /\ last.out.kind = "ok"
          /\ last.out.value.payload = Entry.req.payload
          /\ last.out.value.partyId = Entry.req.partyId
          /\ last.out.value.createdAt = Entry.record.createdAt

\* C2: a record returned by encryptTransaction in which the bytes of one of
\* payload_ct, payload_tag, dek_wrapped, dek_wrap_tag were replaced by
\* different bytes of the same length is refused with DecryptionError.
BitFlips ==
    { <<Ch(f, k)>> : f \in {"payload_ct", "payload_tag", "dek_wrapped", "dek_wrap_tag"},
                     k \in {"flip", "fliplast"} }
C2_TamperDetected ==
    (last.op = "decrypt" /\ Entry.req.json /\ last.tamper \in BitFlips)
    => last.out.kind = "DecryptionError"

C2_Witness ==
    /\ last.op = "decrypt" /\ Entry.req.json
    /\ last.tamper = <<Ch("dek_wrap_tag", "flip")>>
    /\ BufferFromHex(Presented.dek_wrap_tag) # BufferFromHex(Entry.record.dek_wrap_tag)
    /\ Len(BufferFromHex(Presented.dek_wrap_tag)) = 16
    /\ last.out.kind = "DecryptionError"

\* C3 (as claimed): decryptTransaction refuses with ValidationError, before
\* any decryption, every record that the Record Validator refuses, the
\* records with an unsupported alg or mk_version included.
C3_DecodeValidatesFully ==
    (last.op = "decrypt"
     /\ (~StructOk(Presented) \/ ~FieldOk(Presented, "alg")
         \/ ~FieldOk(Presented, "mk_version")))
    => (last.out.kind = "ValidationError" /\ last.out.opens = 0)

\* C4: a record with a malformed hex field is refused with ValidationError
\* before any AES-GCM open, also when it would fail authentication; a
\* DecryptionError is raised only for a record whose six fields are well
\* formed.
C4_ValidationBeforeCrypto ==
    last.op = "decrypt"
    => /\ ~StructOk(Presented)
          => (last.out.kind = "ValidationError" /\ last.out.opens = 0)
       /\ last.out.kind = "DecryptionError"
          => (StructOk(Presented) /\ last.out.opens >= 1)

C4_Witness ==
    /\ last.op = "decrypt"
    /\ last.tamper = <<Ch("payload_tag", "nonhex"), Ch("dek_wrap_tag", "flip")>>
    /\ ~SameBytes(Presented, Entry.record)
    /\ last.out.kind = "ValidationError" /\ last.out.opens = 0

\* C5: decryptTransaction returns or raises ValidationError or
\* DecryptionError, nothing else: ValidationError exactly for a malformed
\* field, DecryptionError when the well-formed fields do not authenticate
\* and when they authenticate but the plaintext is not JSON.
Authentic(record) == SameBytes(record, Entry.record) /\ Entry.key = MASTER_KEY
C5_TwoErrorKinds ==
    last.op = "decrypt"
    => LET wellFormed == StructOk(Presented)
           authentic == Authentic(Presented)
       IN  /\ last.out.kind \in {"ok", "ValidationError", "DecryptionError"}
           /\ last.out.kind = "ValidationError" <=> ~wellFormed
           /\ (wellFormed /\ ~authentic) => last.out.kind = "DecryptionError"
           /\ (wellFormed /\ authentic /\ ~Entry.req.json)
              => last.out.kind = "DecryptionError"
           /\ (wellFormed /\ authentic /\ Entry.req.json) => last.out.kind = "ok"

C5_Witness ==
    /\ last.op = "decrypt" /\ last.tamper = <<>> /\ ~Entry.req.json
    /\ Authentic(Presented)
    /\ last.out.kind = "DecryptionError"

\* The text a module load took the key from is 64 hex digits.
KeyTextOk(text) == HexOnly(text) /\ Len(text) = 64
Epoch == epochs[Len(epochs)]

\* C6 (as claimed): no process runs (and so none encrypts or decrypts) on a
\* MASTER_KEY value or a key file content that is not the hex encoding of
\* exactly 32 bytes: resolution of such a key is fatal.
C6_KeyTrusted ==
    proc = "up"
    => /\ env # <<>> => KeyTextOk(env)
       /\ (env = <<>> /\ Epoch.fileBefore.exists)
          => KeyTextOk(Trim(Epoch.fileBefore.content))

\* C7: the key is the decoding of MASTER_KEY when that is set, and then the
\* key file is neither read nor written; else the decoding of the trimmed
\* content of the key file when it exists, and the file is not rewritten;
\* else a new key of 32 bytes, written to the key file.
C7_ResolutionOrder ==
    proc = "up"
    => IF env # <<>>
       THEN /\ MASTER_KEY = BufferFromHex(env)
            /\ ~Epoch.read /\ ~Epoch.wrote /\ keyFile = Epoch.fileBefore
       ELSE IF Epoch.fileBefore.exists
       THEN /\ MASTER_KEY = BufferFromHex(Trim(Epoch.fileBefore.content))
            /\ ~Epoch.wrote /\ keyFile = Epoch.fileBefore
       ELSE /\ Epoch.wrote /\ Len(MASTER_KEY) = 32
            /\ keyFile = FileOf(BufferToHex(MASTER_KEY))

C7_Witness ==
    /\ proc = "up" /\ env # <<>> /\ Epoch.fileBefore.exists
    /\ MASTER_KEY = ConfigKey
    /\ MASTER_KEY # BufferFromHex(Trim(keyFile.content))

\* The module load j generated its key; the key file was kept from load j
\* until load k.
Generated(j) == env = <<>> /\ ~epochs[j].fileBefore.exists
Retained(j, k) == \A m \in j..(k - 1) : ~epochs[m].lost

\* C8: without MASTER_KEY, a generated key is in the key file as hex, every
\* later start that finds the file resolves the same key, and a record
\* encrypted before a restart decrypts after it.
C8_KeyPersists ==
    /\ \A j \in 1..Len(epochs) :
         Generated(j)
         => /\ Len(epochs[j].key) = 32
            /\ Retained(j, Len(epochs) + 1)
               => keyFile = FileOf(BufferToHex(epochs[j].key))
            /\ \A k \in j..Len(epochs) :
                 Retained(j, k) => epochs[k].key = epochs[j].key
    /\ (last.op = "decrypt" /\ last.tamper = <<>>
        /\ \E j \in 1..Entry.epoch : Generated(j) /\ Retained(j, Len(epochs)))
       => /\ last.out.kind = "ok"
          /\ last.out.value.payload = Entry.req.payload

C8_Witness ==
    /\ last.op = "decrypt" /\ last.tamper = <<>>
    /\ Len(epochs) = 2 /\ Entry.epoch = 1
    /\ Generated(1) /\ Retained(1, 2)
    /\ last.out.kind = "ok"

\* C9: without MASTER_KEY, a start after the key file was lost generates a
\* new key, and every record encrypted before the loss is refused with
\* DecryptionError.
C9_KeyLoss ==
    env = <<>>
    => /\ \A k \in 2..Len(epochs) :
            epochs[k - 1].lost
            => /\ epochs[k].wrote /\ Len(epochs[k].key) = 32
               /\ \A j \in 1..(k - 1) : epochs[j].key # epochs[k].key
       /\ (last.op = "decrypt"
           /\ \E m \in Entry.epoch..(Len(epochs) - 1) : epochs[m].lost)
          => last.out.kind = "DecryptionError"

C9_Witness ==
    /\ env = <<>> /\ last.op = "decrypt" /\ last.tamper = <<>>
    /\ Len(epochs) = 2 /\ Entry.epoch = 1 /\ epochs[1].lost
    /\ last.out.kind = "DecryptionError"

\* The check a ValidationError reports.
Reported(m) ==
    IF m.field # "" THEN m.field
    ELSE IF m.what = "Invalid algorithm" THEN "alg"
    ELSE IF m.what = "Invalid master key version" THEN "mk_version"
    ELSE ""

\* The first check of `order` that the record fails, "" when it fails none.
RECURSIVE FirstDefect(_, _)
FirstDefect(record, order) ==
    IF order = <<>> THEN ""
    ELSE IF ~FieldOk(record, Head(order)) THEN Head(order)
    ELSE FirstDefect(record, Tail(order))

ClaimedOrder ==
    << "payload_nonce", "dek_wrap_nonce", "payload_tag", "dek_wrap_tag",
       "payload_ct", "dek_wrapped", "alg", "mk_version" >>
CodeOrder ==
    << "payload_nonce", "payload_tag", "payload_ct",
       "dek_wrap_nonce", "dek_wrap_tag", "dek_wrapped", "alg", "mk_version" >>

\* C10 (as claimed): validateRecord reports the first failing check in the
\* order both nonces, both tags, both ciphertexts, alg, mk_version.
C10_ClaimedOrder ==
    last.op = "validate"
    => Reported(last.out.message) = FirstDefect(Presented, ClaimedOrder)

\* C10 (amended): validateRecord reports the first failing check in the
\* order payload_nonce, payload_tag, payload_ct, dek_wrap_nonce,
\* dek_wrap_tag, dek_wrapped, alg, mk_version.
C10_CodeOrder ==
    last.op = "validate"
    => /\ Reported(last.out.message) = FirstDefect(Presented, CodeOrder)
       /\ last.out.kind = "ok" <=> FirstDefect(Presented, CodeOrder) = ""

C10_Witness ==
    /\ last.op = "validate"
    /\ last.tamper = <<Ch("payload_tag", "short"), Ch("dek_wrap_nonce", "short")>>
    /\ ~FieldOk(Presented, "payload_tag") /\ ~FieldOk(Presented, "dek_wrap_nonce")
    /\ last.out.kind = "ValidationError"
    /\ last.out.message.field = "payload_tag"

\* The number of bytes a nonce or tag field must have.
Required(f) == IF f \in {"payload_nonce", "dek_wrap_nonce"} THEN 12 ELSE 16
SizedFields == {"payload_nonce", "dek_wrap_nonce", "payload_tag", "dek_wrap_tag"}
Checked == last.op \in {"decrypt", "validate"}

Supported(record) == FieldOk(record, "alg") /\ FieldOk(record, "mk_version")
C13_Gating ==
    last.op = "validate"
    => /\ ~Supported(Presented) => last.out.kind = "ValidationError"
       /\ last.out.kind = "ok" <=> (StructOk(Presented) /\ Supported(Presented))
       /\ last.out.kind \in {"ok", "ValidationError"}

C13_Witness ==
    /\ last.op = "validate" /\ last.tamper = <<Ch("mk_version", "version")>>
    /\ StructOk(Presented) /\ Presented.alg = "AES-256-GCM" /\ Presented.mk_version = 2
    /\ last.out.kind = "ValidationError"
    /\ last.out.message = Msg("", "Invalid master key version", 0)

\* s is the hex encoding of exactly n bytes.
HexOf(s, n) == HexOnly(s) /\ Len(s) = 2 * n

\* C14: every record encryptTransaction returns has nonces of 12 bytes, tags
\* of 16 bytes, a non-empty payload_ct, a dek_wrapped of 32 bytes and an id
\* of 16 bytes, all in hex, alg "AES-256-GCM", mk_version 1 and the partyId
\* of the request; validateRecord accepts it.  (Stated of the record at the
\* return of the call.)
C14_WellFormed ==
    (last.op = "encrypt" /\ last.out.kind = "ok")
    => LET rec == last.given
           i == Len(issued)
      IN  /\ rec = issued[i].record
          /\ HexOf(rec.payload_nonce, 12) /\ HexOf(rec.dek_wrap_nonce, 12)
          /\ HexOf(rec.payload_tag, 16) /\ HexOf(rec.dek_wrap_tag, 16)
          /\ HexOnly(rec.payload_ct) /\ Len(rec.payload_ct) >= 2
          /\ Len(rec.payload_ct) % 2 = 0
          /\ HexOf(rec.dek_wrapped, 32)
          /\ HexOf(rec.id, 16)
          /\ rec.alg = "AES-256-GCM" /\ rec.mk_version = 1
          /\ rec.partyId = issued[i].req.partyId
          /\ ~validateRecord(rec).threw

C14_Witness ==
    /\ last.op = "encrypt" /\ last.out.kind = "ok"
    /\ Entry.req.json /\ Entry.req.partyId = "party-123"
    /\ Entry.record.partyId = "party-123"
    /\ HexOf(Entry.record.dek_wrapped, 32)
    /\ ~validateRecord(Entry.record).threw

\* C15: no two records returned in a process have the same payload_nonce or
\* the same dek_wrap_nonce, also when their requests are the same; no two
\* seals under one key use the same nonce.  (randomBytes is the ideal
\* generator: the claim is about the draws encrypt makes.)
C15_NonceFreshness ==
    /\ \A i, j \in 1..Len(issued) :
         i # j => /\ issued[i].record.payload_nonce # issued[j].record.payload_nonce
                  /\ issued[i].record.dek_wrap_nonce # issued[j].record.dek_wrap_nonce
    /\ \A m, n \in 1..Len(gcm) :
         (m # n /\ gcm[m].key = gcm[n].key) => gcm[m].nonce # gcm[n].nonce

C15_Witness ==
    /\ Len(issued) = 2 /\ issued[1].req = issued[2].req /\ issued[1].req.json
    /\ issued[1].key = issued[2].key
    /\ issued[1].record.payload_nonce # issued[2].record.payload_nonce
    /\ issued[1].record.dek_wrap_nonce # issued[2].record.dek_wrap_nonce

\* sub occurs in s.
Contains(s, sub) ==
    \E k \in 0..(Len(s) - Len(sub)) : SubSeq(s, k + 1, k + Len(sub)) = sub

\* The two seals of the call that returned issued[i], and its DEK.
PayloadSeal(i) == gcm[issued[i].seals - 1]
WrapSeal(i) == gcm[issued[i].seals]
DekOf(i) == PayloadSeal(i).key

\* The key k is nowhere in clear (in hex of either case) in a string.
Hidden(k, s) ==
    Len(s) >= 2 * Len(k)
    => LET hex == BufferToHex(k)
           upper == ToUpper(hex)
       IN  ~Contains(s, hex) /\ ~Contains(s, upper)

\* C16: every encryptTransaction call has a DEK of its own, of 32 bytes: it
\* is the key of one seal only (the payload's) and the plaintext of one
\* seal only (under the master key); it is in clear in no field of a
\* record (looked at when a record is returned: records do not change), in
\* no result or error of decryptTransaction, and in nothing the program
\* keeps (MASTER_KEY, the key file) after the call.
C16_DekConfined ==
    /\ \A i \in 1..Len(issued) :
         LET dek == DekOf(i)
         IN  /\ Len(dek) = 32 /\ dek # issued[i].key
             /\ WrapSeal(i).key = issued[i].key /\ WrapSeal(i).pt = dek
             /\ \A n \in 1..Len(gcm) :
                  /\ gcm[n].key = dek => n = issued[i].seals - 1
                  /\ gcm[n].pt = dek => n = issued[i].seals
             /\ \A j \in 1..Len(issued) : j # i => DekOf(j) # dek
             /\ last.op = "encrypt"
                => \A j \in 1..Len(issued) :
                     \A f \in HexFieldSet \cup {"id"} : Hidden(dek, issued[j].record[f])
             /\ MASTER_KEY # dek
             /\ keyFile.exists => Hidden(dek, keyFile.content)
             /\ last.op = "decrypt"
                => Hidden(dek, JSONstringify(last.out.value.payload))
    /\ \A m, n \in 1..Len(gcm) :
         (m # n /\ gcm[m].key = gcm[n].key) => gcm[m].key = MASTER_KEY
    /\ last.op = "decrypt"
       => /\ last.out.message.what \in
                 {"", TamperedMsg.what, SyntaxMsg.what, "must be valid hex",
                  "must be bytes", "cannot be empty"}
          /\ last.out.message.field \in HexFieldSet \cup {""}
          /\ last.out.message.n \in {0, 12, 16}

C16_Witness ==
    /\ Len(issued) = 2 /\ issued[1].req = issued[2].req
    /\ last.op = "decrypt" /\ last.idx = 2 /\ last.out.kind = "ok"
    /\ DekOf(1) # DekOf(2) /\ Len(DekOf(2)) = 32
    /\ WrapSeal(2).pt = DekOf(2)
    /\ BufferFromHex(issued[2].record.dek_wrapped) = WrapSeal(2).ct

\* C17: every failure of an AES-GCM open in decryptTransaction (another
\* master key; a changed dek_wrapped, dek_wrap_tag, dek_wrap_nonce,
\* payload_ct, payload_tag or payload_nonce) is the same DecryptionError
\* with the same message and nothing else: neither the field nor the step
\* that failed can be told from it.
C17_OpaqueFailure ==
    (last.op = "decrypt" /\ StructOk(Presented) /\ ~Authentic(Presented))
    => /\ last.out.kind = "DecryptionError"
       /\ last.out.message = TamperedMsg
       /\ last.out.value = NoValue

C17_Witness ==
    /\ last.op = "decrypt" /\ last.tamper = <<Ch("payload_nonce", "flip")>>
    /\ Entry.key = MASTER_KEY /\ StructOk(Presented)
    /\ BufferFromHex(Presented.payload_nonce) # BufferFromHex(Entry.record.payload_nonce)
    /\ last.out.opens = 2
    /\ last.out.kind = "DecryptionError" /\ last.out.message = TamperedMsg

\* C18 (as claimed): a record that differs from a record returned by
\* encryptTransaction in the string of one of its six hex fields never
\* decodes: decryptTransaction fails with ValidationError or DecryptionError.
C18_Immutable ==
    (last.op = "decrypt" /\ \E f \in HexFieldSet : Presented[f] # Entry.record[f])
    => last.out.kind \in {"ValidationError", "DecryptionError"}

\* What does hold: a record whose six fields decode to other bytes never
\* decodes (not C18: C18 is about the strings).
ChangedBytesRefused ==
    (last.op = "decrypt" /\ ~SameBytes(Presented, Entry.record))
    => last.out.kind \in {"ValidationError", "DecryptionError"}

\* The changes of the fields that are not encrypted.
PlainKinds == {"partyId", "createdAt", "id"}
PlainOnly(t) == t # <<>> /\ \A n \in 1..Len(t) : t[n].k \in PlainKinds

\* C19: when a record decodes, every record that differs from it only in
\* partyId, createdAt and id decodes too, to the same payload together with
\* its own partyId and createdAt.
C19_PlaintextUnbound ==
    (last.op = "decrypt" /\ PlainOnly(last.tamper))
    => LET orig == decryptTransaction(Entry.record, MASTER_KEY, gcm)
       IN  orig.kind = "ok"
           => /\ last.out.kind = "ok"
              /\ last.out.value.payload = orig.value.payload
              /\ last.out.value.partyId = Presented.partyId
              /\ last.out.value.createdAt = Presented.createdAt

C19_Witness ==
    /\ last.op = "decrypt"
    /\ last.tamper = <<Ch("partyId", "partyId"), Ch("createdAt", "createdAt"), Ch("id", "id")>>
    /\ Presented.partyId = "party-999" /\ Entry.record.partyId = "party-123"
    /\ Presented.createdAt # Entry.record.createdAt /\ Presented.id # Entry.record.id
    /\ last.out.kind = "ok"
    /\ last.out.value.payload = Entry.req.payload
    /\ last.out.value.partyId = "party-999"
    /\ last.out.value.createdAt = Presented.createdAt

\* What decryptTransaction gave for the record of the call `c` when nothing
\* but the encryptTransaction that returned the record had run.
AtIssue(c, recs, g) ==
    decryptTransaction(c.given, recs[c.idx].key, SubSeq(g, 1, recs[c.idx].seals))

\* C20: while the process is up, no call of encryptTransaction,
\* decryptTransaction or validateRecord changes the master key, the key
\* file, the environment or a record returned earlier, and the result of
\* decryptTransaction and of validateRecord is a function of the record
\* alone: the calls made in between do not change it.
C20_NoSharedState ==
    [][ (proc = "up" /\ proc' = "up")
        => /\ MASTER_KEY' = MASTER_KEY /\ keyFile' = keyFile /\ env' = env
           /\ Len(issued') >= Len(issued)
           /\ \A i \in 1..Len(issued) : issued'[i] = issued[i]
           /\ (last'.op \in {"decrypt", "validate"} /\ last = Idle)
              => last'.given = Tamper(issued[last'.idx].record, last'.tamper)
           /\ (last'.op = "decrypt" /\ last = Idle) => last'.out = AtIssue(last', issued', gcm')
           /\ (last'.op = "validate" /\ last = Idle)
              => LET v == validateRecord(last'.given)
                 IN  /\ last'.out.kind = (IF v.threw THEN "ValidationError" ELSE "ok")
                     /\ last'.out.message = v.message ]_vars

C20_Witness ==
    /\ last.op = "decrypt" /\ last.idx = 1 /\ last.tamper = <<>>
    /\ Len(issued) = 2 /\ Len(gcm) > Entry.seals
    /\ MASTER_KEY = Entry.key
    /\ last.out.kind = "ok" /\ last.out = AtIssue(last, issued, gcm)
\* ------------------------------------------------------------- C21 .. C30
SummaryKeys == {"id", "partyId", "createdAt", "alg", "mk_version"}
Newest == issued[Len(issued)]

\* C21: a successful POST /tx/encrypt stores the full record under record.id
\* and answers with exactly id, partyId, createdAt, alg and mk_version of that
\* record: the response has none of the six hex fields and not the payload.
C21_SummaryOnly ==
    (reply.req = "encrypt" /\ reply.status = 201) =>
        /\ DOMAIN reply.body = SummaryKeys
        /\ \A f \in SummaryKeys : reply.body[f] = Newest.record[f]
        /\ reply.body.partyId = reply.sent.partyId.s
        /\ MapHas(storage, Newest.record.id)
        /\ MapGet(storage, Newest.record.id) = Newest.record
        /\ StructOk(MapGet(storage, Newest.record.id))

C21_Witness ==
    /\ reply.req = "encrypt" /\ reply.status = 201
    /\ Len(storage) = 2
    /\ reply.sent.payload.t = "arr"

\* C22: once POST /tx/encrypt for partyId S and payload P has returned id I,
\* GET /tx/I returns the record as stored (the six hex fields, no payload) and
\* POST /tx/I/decrypt returns id I, partyId S, payload P and the record's
\* createdAt, whatever other requests were served in between.
C22_RequestFlow ==
    \A k \in 1..Len(issued) :
        LET given == issued[k]
        IN  /\ (reply.req = "get" /\ reply.id = given.record.id) =>
                  /\ reply.status = 200
                  /\ reply.body = given.record
                  /\ "payload" \notin DOMAIN reply.body
                  /\ StructOk(reply.body)
            /\ (reply.req = "decrypt" /\ reply.id = given.record.id) =>
                  /\ reply.status = 200
                  /\ reply.body = [id |-> given.record.id,
                                   partyId |-> given.req.partyId,
                                   payload |-> given.req.payload,
                                   createdAt |-> given.record.createdAt]

C22_Witness ==
    /\ Len(issued) = 2
    /\ reply.req = "decrypt" /\ reply.id = issued[1].record.id
    /\ reply.status = 200 /\ reply.body.payload = issued[1].req.payload
    /\ issued[1].req.payload # issued[2].req.payload

\* A request the claim calls malformed: partyId missing, empty or not a string,
\* or payload missing, null or not an object (an array is an object).
Malformed(body) ==
    \/ ~body.given
    \/ body.partyId.t # "str" \/ body.partyId.s = ""
    \/ body.payload.t \notin {"obj", "arr"}

EncryptServed(malformed) ==
    (proc = "up" /\ reply'.req = "encrypt") =>
          /\ reply'.sent \in malformed =>
                /\ reply'.status = 400
                /\ reply'.calls = <<>>
                /\ storage' = storage /\ gcm' = gcm /\ rnd' = rnd
          /\ reply'.status = 201 =>
                /\ Len(storage') = Len(storage) + 1
                /\ SubSeq(storage', 1, Len(storage)) = storage
                /\ storage'[Len(storage')].record.partyId = reply'.sent.partyId.s
                /\ ~Malformed(reply'.sent)

\* C30: POST /tx/encrypt answers a malformed request with 400, without calling
\* encryptTransaction and without adding to the store; a request it accepts
\* adds exactly one record, with the request's partyId.
C30_RejectsMalformed == [][EncryptServed({ b \in Bodies : Malformed(b) })]_vars

\* The same of the requests that carry a JSON object as their body.
C30_ObjectBodies ==
    [][EncryptServed({ b \in Bodies : Malformed(b) /\ b.given })]_vars

\* A record validateRecord has to reject, and a record that is one the
\* service issued under the master key it holds (in bytes).
Rejected(record) == ~(StructOk(record) /\ Supported(record))
Genuine(record) ==
    \E k \in 1..Len(issued) :
        SameBytes(record, issued[k].record) /\ issued[k].key = MASTER_KEY

DecryptServed ==
    (proc = "up" /\ reply'.req = "decrypt") =>
        LET r == reply'
            failed == r.status # 200
            label == IF failed THEN r.body.error ELSE ""
        IN  /\ ~MapHas(storage, r.id) =>
                  r.status = 404 /\ r.body = [error |-> "Transaction not found"]
            /\ MapHas(storage, r.id) =>
                  IF Rejected(MapGet(storage, r.id))
                  THEN r.status = 400 /\ label = "Validation failed"
                  ELSE IF Genuine(MapGet(storage, r.id))
                       THEN ~failed
                       ELSE r.status = 400 /\ label = "Decryption failed"
            /\ label = "Validation failed" =>
                  /\ MapHas(storage, r.id) /\ Rejected(MapGet(storage, r.id))
                  /\ r.body.message.what # TamperedMsg.what
            /\ label = "Decryption failed" =>
                  /\ MapHas(storage, r.id) /\ ~Rejected(MapGet(storage, r.id))
                  /\ r.body.message = TamperedMsg
            /\ failed =>
                  /\ "payload" \notin DOMAIN r.body
                  /\ storage' = storage /\ gcm' = gcm /\ issued' = issued

\* C23: POST /tx/:id/decrypt answers an unknown id with 404 'Transaction not
\* found', a stored record that validateRecord rejects with 'Validation
\* failed' and a record that fails decryption with 'Decryption failed', never
\* one under the other's label; a failure returns no payload and leaves the
\* store as it was.
C23_FailsClosed == [][DecryptServed]_vars

C23_Witness ==
    /\ reply.req = "decrypt" /\ reply.status = 400
    /\ reply.body.error = "Validation failed"
    /\ reply.body.message.what = "Invalid algorithm"
    /\ reply.got.payload_ct # issued[1].record.payload_ct
    /\ Len(storage) = 2

C24_StorageRoundTrip ==
    \A n \in 1..Len(tasks) :
        LET t == tasks[n]
        IN  t.pc = "returned" =>
              /\ t.op = "store" =>
                    /\ t.left = t.was \cup {t.record}
                    /\ \A x \in t.was : x.id # t.id
              /\ t.op = "get" =>
                    /\ \A x \in t.knew \cap t.held : x.id = t.id =>
                          /\ t.out.flag
                          /\ t.out.record = x
                          /\ DOMAIN t.out.record = DOMAIN x
                          /\ decryptTransaction(t.out.record, MASTER_KEY, gcm)
                               = decryptTransaction(x, MASTER_KEY, gcm)
                    /\ t.id \notin db.ever => ~t.out.flag
                    /\ t.left = t.was

\* A getTransaction has returned a record that was stored with a hex digit
\* appended to payload_ct, through the PostgreSQL adapter.
RoundTripSeen ==
    \E n \in 1..Len(tasks) :
        /\ tasks[n].pc = "returned" /\ tasks[n].op = "get" /\ tasks[n].out.flag
        /\ db.use = "pg"
        /\ tasks[n].out.record = Tamper(issued[1].record, <<Ch("payload_ct", "odd")>>)
        /\ Cardinality(Stored(db)) = 2

\* The storage of a process that starts now and has initialised.
Reloaded(d) == initDone(lazyStart([d EXCEPT !.cur = 0, !.insts = <<>>, !.inits = 0]), 1)
OnDisk(d) == { FromRowSqlite(d.file.rows[k]) : k \in 1..Len(d.file.rows) }

\* C25: with SQLite, as soon as storeTransaction(R) or deleteTransaction(id)
\* has returned the database file holds the change: a process that restarts
\* at any later moment and loads the file gets R from getTransaction(R.id),
\* and undefined for an id whose record was deleted.
C25_SqliteDurable ==
    db.use = "sqlite" =>
        /\ OnDisk(db) = db.kept
        /\ db.kept # {} => db.file.exists
        /\ \A id \in Ids(issued) :
              LET d == Reloaded(db)
                  got == Method("get", d, d.cur, NoRecord, id, clock)
              IN  /\ got.kind = "returned"
                  /\ \A x \in db.kept : x.id = id => got.flag /\ got.record = x
                  /\ (\A x \in db.kept : x.id # id) => ~got.flag

DurableSeen ==
    /\ db.use = "sqlite" /\ db.lazy = "getDb"
    /\ db.cur = 0 /\ tasks = <<>>
    /\ db.file.exists
    /\ db.kept = { Tamper(issued[2].record, <<Ch("dek_wrapped", "upper")>>) }

\* C26: whatever the interleaving of the calls made while nothing is
\* initialised, initialisation runs once, a call gets to its method only with
\* an adapter or database whose init has completed, and every record whose
\* storeTransaction has returned (and that was not deleted) is in the store.
C26_LazyInitSafe ==
    /\ db.inits <= 1
    /\ \A n \in 1..Len(tasks) :
          tasks[n].pc = "got" => db.insts[tasks[n].inst].ready
    /\ db.kept \subseteq Stored(db)

\* The three parts of C26, one by one.
InitOnce == db.inits <= 1
MethodsOnReady ==
    \A n \in 1..Len(tasks) : tasks[n].pc = "got" => db.insts[tasks[n].inst].ready
NothingLost == db.kept \subseteq Stored(db)

\* C29: deleteTransaction returns true exactly when a record with the id was
\* there and false when none was, with either adapter; afterwards
\* getTransaction(id) returns undefined and the other records are as before.
C29_DeleteReports ==
    \A n \in 1..Len(tasks) :
        LET t == tasks[n]
        IN  (t.pc = "returned" /\ t.op = "delete") =>
              /\ t.out.flag <=> (\E x \in t.was : x.id = t.id)
              /\ t.left = { x \in t.was : x.id # t.id }

\* What deleteTransaction does to the store, apart from what it returns.
DeleteRemoves ==
    \A n \in 1..Len(tasks) :
        LET t == tasks[n]
        IN  (t.pc = "returned" /\ t.op = "delete") =>
              /\ t.left = { x \in t.was : x.id # t.id }
              /\ db.use = "pg" => (t.out.flag <=> (\E x \in t.was : x.id = t.id))
              /\ db.use = "sqlite" => t.out.flag

\* C27: when processes that share the key file, have no MASTER_KEY and find
\* no key file start side by side, then once all are up they hold one and the
\* same master key, the key in the file, and a record any of them encrypted
\* decrypts in each, also after a restart.
C27_OneKey ==
    (\A p \in 1..MaxProcs : procs[p].pc = "up") =>
        /\ \A p, q \in 1..MaxProcs : procs[p].key = procs[q].key
        /\ keyFile.exists
        /\ \A p \in 1..MaxProcs :
              /\ procs[p].key = BufferFromHex(Trim(keyFile.content))
              /\ procs[p].out.idx # 0 => procs[p].out.kind = "ok"

\* What does hold: a process that found the file complete holds the file's
\* key, and a process decrypts what it encrypted itself since it started.
OwnRecordsDecode ==
    \A p \in 1..MaxProcs :
        (procs[p].pc = "up" /\ procs[p].out.idx # 0
           /\ issued[procs[p].out.idx].key = procs[p].key) =>
            procs[p].out.kind = "ok"

====
